---- MODULE Spec2Model ----
(***************************************************************************)
(* Model of the IPPT score-sheet extraction pipeline: the field validators *)
(* of api/chatgpt_vision_ocr.py, the two reconcilers                       *)
(* (foolproof_ocr_parser.py, api/foolproof_ocr_endpoint.py), the           *)
(* positional extractor and its copies (integrate_working_parser.py,       *)
(* working_manual_parser.py) and the custom-model endpoint                 *)
(* (api/custom-azure-form-recognizer.py).                                  *)
(*                                                                         *)
(* A Python str is a sequence of one-character strings; a Python dict is   *)
(* a record plus, where keys may be missing, a set of the keys it holds.   *)
(***************************************************************************)
EXTENDS Integers, Sequences, FiniteSets, TLC

VARIABLES
    prog,          \* what runs: "parser" | "endpoint" | "validator" | "extractor" | "custom_model"
    pc,            \* position in the running function
    results,       \* what each strategy returned, in call order (the parser's `results`)
    soldiers,      \* endpoint: the local list `soldiers` of extract_ippt_data
    raised,        \* the strategies (their index in results) whose body raised
    budget,        \* input bound: the candidates the strategies may still supply
    all_soldiers,  \* the reconciler's accumulator (all_soldiers / unique_soldiers)
    seen_names,    \* the reconciler's seen-identity set
    cur,           \* the reconciler's loop position
    final_result,  \* what the reconciler returned
    returned,      \* what extract_ippt_data returned
    run,           \* 1: first reconciliation, 2: the reconciler called again
    first_result,  \* the first reconciliation's output, kept for comparison
    time_str,      \* _validate_time: its argument
    time_out,      \* _validate_time: its return value
    lines,         \* the OCR text lines the extractors read
    args,          \* the function applied to them and its arguments
    ret            \* what that function returned

\* the variables of a single call of an extractor or of a validator
callVars == <<lines, args, ret>>

vars == <<prog, pc, results, soldiers, raised, budget, all_soldiers, seen_names,
          cur, final_result, returned, run, first_result, time_str, time_out,
          lines, args, ret>>

---------------------------------------------------------------------------
(* Bounds of the model *)

\* longest argument given to _validate_time
MaxTimeLen == 5

\* the candidates the strategies of one call supply between them, a whole run
\* of records counting as two
MaxCands == 3

---------------------------------------------------------------------------
(* Strings *)

Digits == {"0", "1", "2", "3", "4", "5", "6", "7", "8", "9"}

DigitChars == <<"0", "1", "2", "3", "4", "5", "6", "7", "8", "9">>

\* int() of one decimal digit
DigitVal(c) == CHOOSE d \in 0..9 : DigitChars[d + 1] = c

IsDigit(c) == c \in Digits

\* int() of a non-empty all-digit string
RECURSIVE StrToInt(_)
StrToInt(s) ==
    IF Len(s) = 0 THEN 0
    ELSE 10 * StrToInt(SubSeq(s, 1, Len(s) - 1)) + DigitVal(s[Len(s)])

\* str() of a non-negative int, as "{n}" formats it
RECURSIVE IntToStr(_)
IntToStr(n) ==
    IF n < 10 THEN <<DigitChars[n + 1]>>
    ELSE Append(IntToStr(n \div 10), DigitChars[(n % 10) + 1])

\* (faulty variant: no padding)
Pad2_nopad(n) == IntToStr(n)

\* "{n:02d}": at least two digits, zero-padded
Pad2(n) == IF n < 10 THEN <<"0">> \o IntToStr(n) ELSE IntToStr(n)

\* all strings over alphabet A of length at most n
RECURSIVE StringsUpTo(_, _)
StringsUpTo(A, n) ==
    IF n = 0 THEN {<<>>}
    ELSE LET shorter == StringsUpTo(A, n - 1)
         IN  shorter \cup {Append(s, c) : s \in shorter, c \in A}

---------------------------------------------------------------------------
(* The field validator: ChatGPTVisionOCR._validate_time *)

\* (\d{1,2}):(\d{2}) tried at index i, the greedy two-digit minutes first:
\* the number of minute digits of the match there, 0 when there is none
TimeMatchAt(s, i) ==
    IF /\ i + 4 <= Len(s)
       /\ IsDigit(s[i]) /\ IsDigit(s[i + 1]) /\ s[i + 2] = ":"
       /\ IsDigit(s[i + 3]) /\ IsDigit(s[i + 4])
    THEN 2
    ELSE IF /\ i + 3 <= Len(s)
            /\ IsDigit(s[i]) /\ s[i + 1] = ":"
            /\ IsDigit(s[i + 2]) /\ IsDigit(s[i + 3])
         THEN 1
         ELSE 0

\* re.search: the leftmost index with a match, 0 when there is none
TimeSearch(s) ==
    LET hits == {i \in 1..Len(s) : TimeMatchAt(s, i) > 0}
    IN  IF hits = {} THEN 0 ELSE CHOOSE i \in hits : \A j \in hits : i <= j

\* (faulty variant: seconds not zero-padded)
FormatTime_nopad(minutes, seconds) ==
    IntToStr(minutes) \o <<":">> \o Pad2_nopad(seconds)

\* f"{minutes}:{seconds:02d}"
FormatTime(minutes, seconds) == IntToStr(minutes) \o <<":">> \o Pad2(seconds)

\* (faulty variant: the seconds are not range-checked)
TimeInRange_noseconds(minutes, seconds) == 0 <= minutes /\ minutes <= 30

\* 0 <= minutes <= 30 and 0 <= seconds <= 59
TimeInRange(minutes, seconds) ==
    /\ 0 <= minutes /\ minutes <= 30
    /\ 0 <= seconds /\ seconds <= 59

\* int(match.group(n)) raises ValueError unless the group is a decimal number
CanParseInt(s) == Len(s) > 0 /\ \A j \in 1..Len(s) : IsDigit(s[j])

\* does _validate_time(s) raise: only int() of a matched group can
_validate_time_raises(s) ==
    /\ s # <<>>
    /\ TimeSearch(s) # 0
    /\ LET i == TimeSearch(s)
           k == TimeMatchAt(s, i)
       IN  ~ /\ CanParseInt(SubSeq(s, i, i + k - 1))
             /\ CanParseInt(SubSeq(s, i + k + 1, i + k + 2))

_validate_time(s) ==
    IF s = <<>> THEN <<>>
    ELSE LET i == TimeSearch(s)
         IN  IF i = 0 THEN <<>>
             ELSE LET k       == TimeMatchAt(s, i)
                      minutes == StrToInt(SubSeq(s, i, i + k - 1))
                      seconds == StrToInt(SubSeq(s, i + k + 1, i + k + 2))
                  IN  IF TimeInRange(minutes, seconds)
                      THEN FormatTime(minutes, seconds)
                      ELSE <<>>

\* the characters the arguments of _validate_time are drawn from
TimeAlphabet == {"0", "1", "3", "6", ":", "x"}

TimeInputs == StringsUpTo(TimeAlphabet, MaxTimeLen)

\* no dict yet: the function has not returned
NoResult == [pending |-> TRUE]

\* the loop position past the last candidate
EndCur == [m |-> 0, r |-> 0, s |-> 0]

\* the variables of the reconcilers, at rest
Idle ==
    /\ results = <<>> /\ soldiers = <<>> /\ raised = {} /\ budget = 0
    /\ all_soldiers = <<>> /\ seen_names = {} /\ cur = EndCur
    /\ final_result = NoResult /\ returned = NoResult
    /\ run = 0 /\ first_result = NoResult

\* no extractor is being called
NoCall == lines = <<>> /\ args = NoResult /\ ret = NoResult

InitTime ==
    /\ prog = "validator"
    /\ pc = "call"
    /\ time_str \in TimeInputs
    /\ time_out = <<>>
    /\ Idle
    /\ NoCall

ValidateTime ==
    /\ prog = "validator" /\ pc = "call"
    /\ IF _validate_time_raises(time_str)
       THEN pc' = "raised" /\ time_out' = time_out
       ELSE pc' = "done" /\ time_out' = _validate_time(time_str)
    /\ UNCHANGED <<prog, results, soldiers, raised, budget, all_soldiers, seen_names,
                   cur, final_result, returned, run, first_result, time_str, callVars>>

NextTime == ValidateTime

SpecTime == InitTime /\ [][NextTime]_vars

---------------------------------------------------------------------------
(* Properties of _validate_time, stated on the text alone *)

\* digit{k}:digit{2} occupies s[i .. i+k+2]
PatAt(s, i, k) ==
    /\ i >= 1 /\ i + k + 2 <= Len(s)
    /\ \A j \in i..(i + k - 1) : s[j] \in Digits
    /\ s[i + k] = ":"
    /\ s[i + k + 1] \in Digits /\ s[i + k + 2] \in Digits

MinutesAt(s, i, k) == StrToInt(SubSeq(s, i, i + k - 1))

SecondsAt(s, i, k) == StrToInt(SubSeq(s, i + k + 1, i + k + 2))

InRangeAt(s, i, k) == MinutesAt(s, i, k) <= 30 /\ SecondsAt(s, i, k) <= 59

\* ^\d{1,2}:\d{2}$ (on text without a newline)
IsTimePattern(s) == \E k \in 1..2 : Len(s) = k + 3 /\ PatAt(s, 1, k)

\* M:SS or MM:SS with minutes in [0,30] and seconds in [0,59]
IsTimeInRange(s) == \E k \in 1..2 : Len(s) = k + 3 /\ PatAt(s, 1, k) /\ InRangeAt(s, 1, k)

\* C9 as stated: validate_time returns every in-range M:SS / MM:SS string
\* unchanged.
C9_Original ==
    (prog = "validator" /\ pc = "done" /\ IsTimeInRange(time_str))
        => time_out = time_str

\* C9, amended: validate_time returns unchanged every in-range M:SS string and
\* every in-range MM:SS string whose minutes do not start with the digit 0.
C9_RoundTrip ==
    (/\ prog = "validator" /\ pc = "done" /\ IsTimeInRange(time_str)
     /\ (Len(time_str) = 5 => time_str[1] # "0"))
        => time_out = time_str

\* an MM:SS string (two minute digits, seconds needing their zero) came back as given
C9_Witness ==
    /\ prog = "validator" /\ pc = "done"
    /\ Len(time_str) = 5 /\ IsTimeInRange(time_str)
    /\ time_str[1] # "0" /\ time_str[4] = "0"
    /\ time_out = time_str

\* the shape of every return value: empty, or minutes:seconds in range
TimeOutShape == time_out = <<>> \/ IsTimeInRange(time_out)

\* C10 as stated: the result is empty or minutes:seconds in range; it is
\* non-empty exactly when the input contains some digit{1,2}:digit{2} substring
\* with minutes <= 30 and seconds <= 59; validate_time never raises.
C10_Original ==
    /\ pc # "raised"
    /\ (prog = "validator" /\ pc = "done") =>
          /\ TimeOutShape
          /\ time_out # <<>> <=>
                \E i \in 1..Len(time_str), k \in 1..2 :
                    PatAt(time_str, i, k) /\ InRangeAt(time_str, i, k)

\* C10, amended: the result is empty or minutes:seconds in range; it is
\* non-empty exactly when the leftmost digit{1,2}:digit{2} match of the input
\* (the one re.search finds) has minutes <= 30 and seconds <= 59, and it is then
\* that match with the minutes printed as a number; validate_time never raises.
C10_LeftmostMatch ==
    /\ pc # "raised"
    /\ (prog = "validator" /\ pc = "done") =>
          /\ TimeOutShape
          /\ time_out # <<>> <=>
                \E i \in 1..Len(time_str), k \in 1..2 :
                    /\ PatAt(time_str, i, k) /\ InRangeAt(time_str, i, k)
                    /\ \A j \in 1..(i - 1), k2 \in 1..2 : ~PatAt(time_str, j, k2)
          /\ \A i \in 1..Len(time_str), k \in 1..2 :
                (/\ PatAt(time_str, i, k) /\ InRangeAt(time_str, i, k)
                 /\ \A j \in 1..(i - 1), k2 \in 1..2 : ~PatAt(time_str, j, k2))
                    => /\ MinutesAt(time_out, 1, Len(time_out) - 3) = MinutesAt(time_str, i, k)
                       /\ SecondsAt(time_out, 1, Len(time_out) - 3) = SecondsAt(time_str, i, k)

\* an input whose leftmost match is in range and does not start the text gave
\* that match, reformatted, and not the input
C10_Witness ==
    /\ prog = "validator" /\ pc = "done"
    /\ time_out # <<>>
    /\ ~PatAt(time_str, 1, 1) /\ ~PatAt(time_str, 1, 2)
    /\ time_out # time_str

---------------------------------------------------------------------------
(* Candidate records: what the extraction strategies hand the reconcilers *)

\* all_soldiers[:10], unique_soldiers[:10]
MaxSoldiers == 10

\* if len(soldiers) < 8
SecondaryThreshold == 8

\* len(soldier['name']) < 2
MinNameLen == 2

\* soldier.get('sit_up_reps', 0) > 200
MaxSitUp == 200

\* foolproof_ocr_parser.py: soldier.get('push_up_reps', 0) > 2000
MaxPushUpParser == 2000

\* api/foolproof_ocr_endpoint.py: soldier.get('push_up_reps', 0) > 200
MaxPushUpEndpoint == 200

Letters == <<"A", "B", "C", "D", "E", "F", "G", "H", "I", "J", "K", "L">>

\* the i-th identity of the model
Name(i) == <<"S", Letters[i]>>

T930 == <<"9", ":", "3", "0">>

T4599 == <<"4", "5", ":", "9", "9">>

Soldier(n, a, b, t) == [name |-> n, sit_up_reps |-> a, push_up_reps |-> b, run_time |-> t]

\* the candidates supplied one by one: plausible ones, two that share an identity
\* with different scores, and one for each way a candidate can be implausible
Pool ==
    { Soldier(Name(1), 35, 40, T930),
      Soldier(Name(1), 38, 0, <<>>),
      Soldier(Name(1), 201, 0, <<>>),
      Soldier(Name(2), 0, 1500, <<>>),
      Soldier(Name(MaxSoldiers + 1), 0, 0, T4599),
      Soldier(Name(2), 0, 0, <<>>),
      Soldier(<<"A">>, 35, 0, <<>>) }

\* a full row of the form: the record of identity i
RunSoldier(i) == Soldier(Name(i), 20 + i, 40, T930)

\* the rows a..b of a form, in order
Run(a, b) == [k \in 1..(b - a + 1) |-> RunSoldier(a + k - 1)]

\* the runs a strategy may supply: one short of the threshold, the threshold,
\* one that overlaps these and ends past the cap, and one longer than the cap
Runs ==
    { Run(1, SecondaryThreshold - 1), Run(1, SecondaryThreshold),
      Run(4, MaxSoldiers + 1), Run(1, MaxSoldiers + 1) }

\* the candidate lists a strategy may return with budget b left
Lists(b) == StringsUpTo(Pool, b) \cup (IF b >= 2 THEN Runs ELSE {})

Spend(b, L) == IF L \in Runs THEN b - 2 ELSE b - Len(L)

---------------------------------------------------------------------------
(* foolproof_ocr_parser.py: FoolproofOCRParser *)

\* (faulty variant: no check for performance data)
_validate_soldier_data_nodata(soldier) ==
    /\ ~(soldier.name = <<>> \/ Len(soldier.name) < MinNameLen)
    /\ ~(soldier.sit_up_reps > MaxSitUp)
    /\ ~(soldier.push_up_reps > MaxPushUpParser)

_validate_soldier_data(soldier) ==
    LET has_performance ==
            \/ soldier.sit_up_reps > 0
            \/ soldier.push_up_reps > 0
            \/ soldier.run_time # <<>>
    IN  /\ ~(soldier.name = <<>> \/ Len(soldier.name) < MinNameLen)
        /\ has_performance
        /\ ~(soldier.sit_up_reps > MaxSitUp)
        /\ ~(soldier.push_up_reps > MaxPushUpParser)

\* (faulty variant: the least reliable method first)
method_priority_reversed == <<"fallback", "pattern_based", "azure_ocr">>

method_priority == <<"azure_ocr", "pattern_based", "fallback">>

\* the positions (method, result, soldier) the three nested loops of
\* _combine_and_validate visit, which they do in lexicographic order
Positions(res) ==
    UNION { { [m |-> mr[1], r |-> mr[2], s |-> s] : s \in 1..Len(res[mr[2]].soldiers) } :
            mr \in { x \in (1..Len(method_priority)) \X (1..Len(res)) :
                        res[x[2]].method = method_priority[x[1]] } }

\* (faulty variant: the results are gone through in the order they were passed)
Before_passed(p, q) ==
    \/ p.r < q.r
    \/ p.r = q.r /\ p.s < q.s

Before(p, q) ==
    \/ p.m < q.m
    \/ p.m = q.m /\ p.r < q.r
    \/ p.m = q.m /\ p.r = q.r /\ p.s < q.s

\* the first position of P, EndCur when the loops are over
FirstOf(P) == IF P = {} THEN EndCur ELSE CHOOSE p \in P : \A q \in P \ {p} : Before(p, q)

FirstPos(res) == FirstOf(Positions(res))

NextPos(res, p) == FirstOf({q \in Positions(res) : Before(p, q)})

\* (faulty variant: the seen set outlives the call)
InitSeenNames_kept(prev) == prev

\* seen_names = set()
InitSeenNames(prev) == {}

\* (faulty variant: an identity is accepted again)
NotSeen_always(name, seen) == TRUE

\* soldier['name'] not in seen_names
NotSeen(name, seen) == name \notin seen

\* (faulty variant: an identity is marked as soon as its candidate is tried)
Marked_tried(seen, name, accepted) == seen \cup {name}

\* seen_names.add(soldier['name']), which stands under the validation
Marked(seen, name, accepted) == IF accepted THEN seen \cup {name} ELSE seen

\* (faulty variant: no cap)
Truncate_none(list) == list

\* list[:10]
Truncate(list) == SubSeq(list, 1, IF Len(list) < MaxSoldiers THEN Len(list) ELSE MaxSoldiers)

\* (faulty variant: success whatever the count)
CombineResult_always(list) ==
    [soldiers |-> list, total_soldiers |-> Len(list),
     method |-> "foolproof_multi_layer", success |-> Len(list) >= 0]

\* the dict _combine_and_validate returns
CombineResult(list) ==
    [soldiers |-> list, total_soldiers |-> Len(list),
     method |-> "foolproof_multi_layer", success |-> Len(list) > 0]

\* the dict of the except branch of extract_ippt_data
ErrorResult == [soldiers |-> <<>>, error |-> "exception"]

\* The three extraction methods. Each runs in its own try: it returns the list
\* it extracted under its method name, or, when anything in it raises, an empty
\* list under the name of the failed method.
StrategyResult(method, failed) ==
    /\ \/ \E L \in Lists(budget) :
            /\ results' = Append(results, [method |-> method, soldiers |-> L])
            /\ budget' = Spend(budget, L)
            /\ raised' = raised
       \/ /\ results' = Append(results, [method |-> failed, soldiers |-> <<>>])
          /\ raised' = raised \cup {Len(results) + 1}
          /\ budget' = budget
    /\ UNCHANGED <<prog, soldiers, all_soldiers, seen_names, cur, final_result,
                   returned, run, first_result, time_str, time_out, callVars>>

_azure_ocr_extraction ==
    /\ prog = "parser" /\ pc = "start"
    /\ pc' = "pattern"
    /\ StrategyResult("azure_ocr", "azure_ocr_failed")

_pattern_based_extraction ==
    /\ prog = "parser" /\ pc = "pattern"
    /\ pc' = "fallback"
    /\ StrategyResult("pattern_based", "pattern_failed")

_fallback_extraction ==
    /\ prog = "parser" /\ pc = "fallback"
    /\ pc' = "combine"
    /\ StrategyResult("fallback", "fallback_failed")

\* _combine_and_validate, entered: the accumulator and the seen set are new,
\* and the loops stand at their first candidate
CombineBegin ==
    /\ prog = "parser" /\ pc = "combine"
    /\ all_soldiers' = <<>>
    /\ seen_names' = InitSeenNames(seen_names)
    /\ cur' = FirstPos(results)
    /\ pc' = "fold"
    /\ UNCHANGED <<prog, results, soldiers, raised, budget, final_result, returned,
                   run, first_result, time_str, time_out, callVars>>

\* one pass of the innermost loop of _combine_and_validate
CombineStep ==
    /\ prog = "parser" /\ pc = "fold" /\ cur # EndCur
    /\ LET soldier == results[cur.r].soldiers[cur.s]
           accepted == _validate_soldier_data(soldier)
       IN  IF soldier.name # <<>> /\ NotSeen(soldier.name, seen_names)
           THEN /\ all_soldiers' = IF accepted THEN Append(all_soldiers, soldier)
                                   ELSE all_soldiers
                /\ seen_names' = Marked(seen_names, soldier.name, accepted)
           ELSE UNCHANGED <<all_soldiers, seen_names>>
    /\ cur' = NextPos(results, cur)
    /\ UNCHANGED <<prog, pc, results, soldiers, raised, budget, final_result, returned,
                   run, first_result, time_str, time_out, callVars>>

\* the loops are over: cap the list and return the result dict
CombineEnd ==
    /\ prog = "parser" /\ pc = "fold" /\ cur = EndCur
    /\ all_soldiers' = Truncate(all_soldiers)
    /\ final_result' = CombineResult(all_soldiers')
    /\ pc' = IF run = 1 THEN "export" ELSE "done"
    /\ UNCHANGED <<prog, results, soldiers, raised, budget, seen_names, cur, returned,
                   run, first_result, time_str, time_out, callVars>>

\* extract_ippt_data after the reconciliation: the result is written to
\* foolproof_parsed_ippt.json and returned; when the write raises, the except
\* branch of extract_ippt_data returns the error dict instead
ExportAndReturn ==
    /\ prog = "parser" /\ pc = "export"
    /\ \/ returned' = final_result
       \/ returned' = ErrorResult
    /\ pc' = "done"
    /\ UNCHANGED <<prog, results, soldiers, raised, budget, all_soldiers, seen_names,
                   cur, final_result, run, first_result, time_str, time_out, callVars>>

\* _combine_and_validate is called a second time on the same list of results
CombineAgain ==
    /\ prog = "parser" /\ pc = "done" /\ run = 1
    /\ first_result' = final_result
    /\ run' = 2
    /\ pc' = "combine"
    /\ UNCHANGED <<prog, results, soldiers, raised, budget, all_soldiers, seen_names,
                   cur, final_result, returned, time_str, time_out, callVars>>

InitParser ==
    /\ prog = "parser"
    /\ pc = "start"
    /\ results = <<>> /\ soldiers = <<>> /\ raised = {}
    /\ budget = MaxCands
    /\ all_soldiers = <<>> /\ seen_names = {} /\ cur = EndCur
    /\ final_result = NoResult /\ returned = NoResult
    /\ run = 1 /\ first_result = NoResult
    /\ time_str = <<>> /\ time_out = <<>>
    /\ NoCall

NextParser ==
    \/ _azure_ocr_extraction
    \/ _pattern_based_extraction
    \/ _fallback_extraction
    \/ CombineBegin
    \/ CombineStep
    \/ CombineEnd
    \/ ExportAndReturn
    \/ CombineAgain

SpecParser == InitParser /\ [][NextParser]_vars

---------------------------------------------------------------------------
(* api/foolproof_ocr_endpoint.py: FoolproofOCRParser *)

_validate_soldier(soldier) ==
    LET has_performance ==
            \/ soldier.sit_up_reps > 0
            \/ soldier.push_up_reps > 0
            \/ soldier.run_time # <<>>
    IN  /\ ~(soldier.name = <<>> \/ Len(soldier.name) < MinNameLen)
        /\ has_performance
        /\ ~(soldier.sit_up_reps > MaxSitUp)
        /\ ~(soldier.push_up_reps > MaxPushUpEndpoint)

\* the dict extract_ippt_data returns
EndpointResult(list) ==
    [soldiers |-> list, total_soldiers |-> Len(list),
     method |-> "foolproof_hybrid", success |-> Len(list) > 0]

\* The two strategies of the endpoint. Each appends to its list inside one
\* try and returns the list after the except: when its body raises, the
\* records appended before the exception are returned.
EndpointStrategy(method) ==
    /\ \E L \in Lists(budget) :
          /\ soldiers' = soldiers \o L
          /\ results' = Append(results, [method |-> method, soldiers |-> L])
          /\ budget' = Spend(budget, L)
          /\ \/ raised' = raised
             \/ raised' = raised \cup {Len(results) + 1}
    /\ UNCHANGED <<prog, all_soldiers, seen_names, cur, final_result, returned, run,
                   first_result, time_str, time_out, callVars>>

\* (faulty variant: the secondary strategy also runs on exactly 8 records)
NeedsSecondary_atmost(list) == Len(list) <= SecondaryThreshold

\* if len(soldiers) < 8
NeedsSecondary(list) == Len(list) < SecondaryThreshold

\* soldiers = self._working_line_based_strategy(); if len(soldiers) < 8: ...
_working_line_based_strategy ==
    /\ prog = "endpoint" /\ pc = "start"
    /\ EndpointStrategy("working_line_based")
    /\ pc' = IF NeedsSecondary(soldiers') THEN "azure" ELSE "combine"

\* soldiers.extend(self._azure_ocr_strategy(image_path))
_azure_ocr_strategy ==
    /\ prog = "endpoint" /\ pc = "azure"
    /\ EndpointStrategy("azure_ocr")
    /\ pc' = "combine"

\* _deduplicate_and_validate, entered
DedupBegin ==
    /\ prog = "endpoint" /\ pc = "combine"
    /\ all_soldiers' = <<>>
    /\ seen_names' = InitSeenNames(seen_names)
    /\ cur' = IF soldiers = <<>> THEN EndCur ELSE [m |-> 1, r |-> 1, s |-> 1]
    /\ pc' = "fold"
    /\ UNCHANGED <<prog, results, soldiers, raised, budget, final_result, returned,
                   run, first_result, time_str, time_out, callVars>>

\* one pass of the loop of _deduplicate_and_validate
DedupStep ==
    /\ prog = "endpoint" /\ pc = "fold" /\ cur # EndCur
    /\ LET soldier == soldiers[cur.s]
           accepted == _validate_soldier(soldier)
       IN  IF soldier.name # <<>> /\ NotSeen(soldier.name, seen_names)
           THEN /\ all_soldiers' = IF accepted THEN Append(all_soldiers, soldier)
                                   ELSE all_soldiers
                /\ seen_names' = Marked(seen_names, soldier.name, accepted)
           ELSE UNCHANGED <<all_soldiers, seen_names>>
    /\ cur' = IF cur.s < Len(soldiers) THEN [cur EXCEPT !.s = @ + 1] ELSE EndCur
    /\ UNCHANGED <<prog, pc, results, soldiers, raised, budget, final_result, returned,
                   run, first_result, time_str, time_out, callVars>>

\* the loop is over: return unique_soldiers[:10], which extract_ippt_data
\* wraps in its result dict and returns
DedupEnd ==
    /\ prog = "endpoint" /\ pc = "fold" /\ cur = EndCur
    /\ all_soldiers' = Truncate(all_soldiers)
    /\ final_result' = EndpointResult(all_soldiers')
    /\ returned' = IF run = 1 THEN final_result' ELSE returned
    /\ pc' = "done"
    /\ UNCHANGED <<prog, results, soldiers, raised, budget, seen_names, cur,
                   run, first_result, time_str, time_out, callVars>>

\* _deduplicate_and_validate is called a second time on the same list
DedupAgain ==
    /\ prog = "endpoint" /\ pc = "done" /\ run = 1
    /\ first_result' = final_result
    /\ run' = 2
    /\ pc' = "combine"
    /\ UNCHANGED <<prog, results, soldiers, raised, budget, all_soldiers, seen_names,
                   cur, final_result, returned, time_str, time_out, callVars>>

InitEndpoint ==
    /\ prog = "endpoint"
    /\ pc = "start"
    /\ results = <<>> /\ soldiers = <<>> /\ raised = {}
    /\ budget = MaxCands
    /\ all_soldiers = <<>> /\ seen_names = {} /\ cur = EndCur
    /\ final_result = NoResult /\ returned = NoResult
    /\ run = 1 /\ first_result = NoResult
    /\ time_str = <<>> /\ time_out = <<>>
    /\ NoCall

NextEndpoint ==
    \/ _working_line_based_strategy
    \/ _azure_ocr_strategy
    \/ DedupBegin
    \/ DedupStep
    \/ DedupEnd
    \/ DedupAgain

---------------------------------------------------------------------------
(* Both reconcilers *)

Init == InitParser \/ InitEndpoint

Next == NextParser \/ NextEndpoint

Spec == Init /\ [][Next]_vars

---------------------------------------------------------------------------
(* Properties of the reconcilers *)

\* the reconciler has returned
Reconciled == "soldiers" \in DOMAIN final_result

\* the candidates supplied, as (strategy, index); strategies are called, and
\* ranked, in the order of results
Cands == UNION { { <<r, i>> : i \in 1..Len(results[r].soldiers) } : r \in 1..Len(results) }

CandAt(p) == results[p[1]].soldiers[p[2]]

Earlier(p, q) == p[1] < q[1] \/ (p[1] = q[1] /\ p[2] < q[2])

\* is_plausible_record, as the running reconciler applies it
Plausible(c) == IF prog = "parser" THEN _validate_soldier_data(c) ELSE _validate_soldier(c)

\* the plausible candidates of identity n
ValidNamed(n) == {p \in Cands : CandAt(p).name = n /\ Plausible(CandAt(p))}

\* the first of them in priority order
FirstValid(n) == CHOOSE p \in ValidNamed(n) : \A q \in ValidNamed(n) \ {p} : Earlier(p, q)

\* the identities whose first plausible candidate comes before that of n
NamesBefore(n) ==
    { CandAt(q).name : q \in {q \in Cands : /\ Plausible(CandAt(q))
                                            /\ CandAt(q).name # n
                                            /\ Earlier(q, FirstValid(n))} }

\* the positions of the output that hold identity n
OutNamed(n) == {k \in 1..Len(final_result.soldiers) : final_result.soldiers[k].name = n}

\* C1: the record list the reconciler returns holds at most 10 records.
C1_AtMostTen == Reconciled => Len(final_result.soldiers) <= MaxSoldiers

\* more than 10 distinct plausible identities were supplied and 10 were returned
C1_Witness ==
    /\ Reconciled /\ pc = "done"
    /\ Cardinality(seen_names) > MaxSoldiers
    /\ Len(final_result.soldiers) = MaxSoldiers

\* C2: no two records of the reconciler's output have the same name.
C2_DistinctNames ==
    Reconciled =>
        \A i, j \in 1..Len(final_result.soldiers) :
            i # j => final_result.soldiers[i].name # final_result.soldiers[j].name

\* an identity supplied by two plausible candidates is in the output
C2_Witness ==
    /\ Reconciled /\ pc = "done"
    /\ \E k \in 1..Len(final_result.soldiers) :
          Cardinality(ValidNamed(final_result.soldiers[k].name)) >= 2

\* C3 as stated: every record of the output has sit_up_reps and push_up_reps
\* in [0,200] and a run_time that is empty or M:SS / MM:SS with minutes <= 30
\* and seconds <= 59.
C3_FieldRanges ==
    Reconciled =>
        \A k \in 1..Len(final_result.soldiers) :
            LET o == final_result.soldiers[k]
            IN  /\ 0 <= o.sit_up_reps /\ o.sit_up_reps <= 200
                /\ 0 <= o.push_up_reps /\ o.push_up_reps <= 200
                /\ (o.run_time = <<>> \/ IsTimeInRange(o.run_time))

\* two different strategies supply plausible candidates of identity n that differ
TwoSupply(n) ==
    \E p, q \in ValidNamed(n) : p[1] # q[1] /\ CandAt(p) # CandAt(q)

SuppliedNames == {CandAt(p).name : p \in Cands}

\* C4 as stated: when two strategies supply plausible candidates of one identity
\* with different values, the output holds exactly one record of that identity,
\* and it is the candidate of the higher-priority strategy.
C4_Original ==
    (Reconciled /\ pc = "done") =>
        \A n \in SuppliedNames :
            TwoSupply(n) =>
                /\ Cardinality(OutNamed(n)) = 1
                /\ \A k \in OutNamed(n) : final_result.soldiers[k] = CandAt(FirstValid(n))

\* C4, amended: when two strategies supply plausible candidates of one identity
\* with different values, the output holds at most one record of that identity,
\* and that record is the first plausible candidate of the higher-priority
\* strategy; it holds exactly one when fewer than 10 other identities have a
\* plausible candidate before it, and none otherwise (it is cut by the cap).
C4_HigherPriorityWins ==
    (Reconciled /\ pc = "done") =>
        \A n \in SuppliedNames :
            TwoSupply(n) =>
                /\ Cardinality(OutNamed(n)) =
                       (IF Cardinality(NamesBefore(n)) < MaxSoldiers THEN 1 ELSE 0)
                /\ \A k \in OutNamed(n) : final_result.soldiers[k] = CandAt(FirstValid(n))

\* two strategies supplied different plausible candidates of one identity, and
\* the output holds the higher-priority one
C4_Witness ==
    /\ Reconciled /\ pc = "done"
    /\ \E n \in SuppliedNames :
          /\ TwoSupply(n)
          /\ \E k \in OutNamed(n) : final_result.soldiers[k] = CandAt(FirstValid(n))
          /\ \E q \in ValidNamed(n) :
                /\ q[1] > FirstValid(n)[1]
                /\ CandAt(q).sit_up_reps # CandAt(FirstValid(n)).sit_up_reps

\* C14: the endpoint calls its secondary strategy exactly when the primary
\* one yielded fewer than 8 records; the secondary candidates are then merged
\* after the primary ones, and a secondary candidate that is the first
\* plausible one of its identity, within the cap, is in the output; when the
\* primary yielded 8 or more, the list reconciled is the primary's alone. Every
\* output record is one of the candidates supplied.
C14_SecondaryWhenFew ==
    (prog = "endpoint" /\ pc \in {"combine", "fold", "done"}) =>
        /\ (Len(results) = 2) <=> (Len(results[1].soldiers) < 8)
        /\ Len(results) = 1 => soldiers = results[1].soldiers
        /\ Len(results) = 2 => soldiers = results[1].soldiers \o results[2].soldiers
        /\ pc = "done" =>
              /\ \A k \in 1..Len(final_result.soldiers) :
                    \E p \in Cands : CandAt(p) = final_result.soldiers[k]
              /\ \A n \in SuppliedNames :
                    (/\ ValidNamed(n) # {}
                     /\ FirstValid(n)[1] = 2
                     /\ Cardinality(NamesBefore(n)) < MaxSoldiers) =>
                        \E k \in OutNamed(n) :
                            final_result.soldiers[k] = CandAt(FirstValid(n))

\* the primary strategy yielded 7 records, the secondary was called, and the
\* output holds a record of the primary and one of an identity that only the
\* secondary supplied
C14_Witness ==
    /\ prog = "endpoint" /\ pc = "done" /\ run = 1
    /\ Len(results) = 2 /\ Len(results[1].soldiers) = 7
    /\ \E j, k \in 1..Len(final_result.soldiers) :
          /\ final_result.soldiers[j] = results[1].soldiers[1]
          /\ final_result.soldiers[k] \in {results[2].soldiers[i] :
                                              i \in 1..Len(results[2].soldiers)}
          /\ \A i \in 1..Len(results[1].soldiers) :
                results[1].soldiers[i].name # final_result.soldiers[k].name

\* the fold of the reconciler is under way, or over with the list not yet cut
Folding == prog \in {"parser", "endpoint"} /\ pc = "fold"

AcceptedNames == {all_soldiers[j].name : j \in 1..Len(all_soldiers)}

\* C28: at every step of the fold the seen set is the set of the identities
\* of the records accepted so far, a candidate that fails validation leaving
\* its identity unmarked; so at the end of the fold every identity with a
\* plausible candidate is accepted, whatever came before that candidate.
C28_SeenIsAccepted ==
    Folding =>
        /\ seen_names = AcceptedNames
        /\ cur = EndCur =>
              \A p \in Cands :
                 (CandAt(p).name # <<>> /\ Plausible(CandAt(p)))
                    => CandAt(p).name \in AcceptedNames

\* the fold is over; a candidate failed validation, and a later one of the
\* same identity passed it and is among the accepted records
C28_Witness ==
    /\ Folding /\ cur = EndCur
    /\ \E p, q \in Cands :
          /\ Earlier(p, q)
          /\ CandAt(p).name = CandAt(q).name
          /\ ~Plausible(CandAt(p))
          /\ Plausible(CandAt(q))
          /\ \E j \in 1..Len(all_soldiers) : all_soldiers[j] = CandAt(q)

\* a record has meaningful data
HasData(o) == o.sit_up_reps > 0 \/ o.push_up_reps > 0 \/ o.run_time # <<>>

\* C5: every record of the output has an identity of at least 2 characters
\* and meaningful data (sit_up_reps > 0 or push_up_reps > 0 or a run_time).
C5_IdentityAndData ==
    Reconciled =>
        \A k \in 1..Len(final_result.soldiers) :
            LET o == final_result.soldiers[k]
            IN  o.name # <<>> /\ Len(o.name) >= 2 /\ HasData(o)

\* a candidate without data and one with a one-character identity were
\* supplied, and the output, which is not empty, holds neither
C5_Witness ==
    /\ Reconciled /\ pc = "done"
    /\ \E p \in Cands : ~HasData(CandAt(p))
    /\ \E p \in Cands : Len(CandAt(p).name) < 2
    /\ final_result.soldiers # <<>>

\* C6: the reconciler's result has total_soldiers equal to the length of its
\* record list and success equal to (total_soldiers > 0); when no strategy
\* supplies a candidate it is an empty list, 0 and false.
C6_CountAndSuccess ==
    Reconciled =>
        /\ {"soldiers", "total_soldiers", "success"} \subseteq DOMAIN final_result
        /\ final_result.total_soldiers = Len(final_result.soldiers)
        /\ final_result.success = (final_result.total_soldiers > 0)
        /\ (pc = "done" /\ Cands = {}) =>
              /\ final_result.soldiers = <<>>
              /\ final_result.total_soldiers = 0
              /\ final_result.success = FALSE

\* every strategy returned zero candidates and the reconciler returned
C6_Witness ==
    /\ Reconciled /\ pc = "done" /\ run = 1
    /\ Cands = {}
    /\ final_result.success = FALSE

\* C7 as stated: when a strategy raises it counts as having supplied zero
\* candidates, the others' candidates are still reconciled, and
\* extract_ippt_data returns a result with the record list, the count and the
\* success flag.
C7_StrategyRaises ==
    (pc = "done" /\ run = 1 /\ raised # {}) =>
        /\ \A r \in raised : results[r].soldiers = <<>>
        /\ {"soldiers", "total_soldiers", "success"} \subseteq DOMAIN returned
        /\ returned = final_result

\* C8: the reconciler called a second time on the same input returns what it
\* returned the first time.
C8_SameOutputTwice ==
    (pc = "done" /\ run = 2) => final_result = first_result

\* the second call is over, and the output, which is not empty, had a
\* candidate of an identity already seen left out
C8_Witness ==
    /\ pc = "done" /\ run = 2
    /\ final_result.soldiers # <<>>
    /\ \E n \in SuppliedNames : Cardinality(ValidNamed(n)) >= 2

---------------------------------------------------------------------------
(* More of str and int() *)

\* the characters str.strip() removes
Whitespace == {" ", "\t", "\n"}

RECURSIVE LStrip(_)
LStrip(s) == IF s # <<>> /\ s[1] \in Whitespace THEN LStrip(Tail(s)) ELSE s

RECURSIVE RStrip(_)
RStrip(s) ==
    IF s # <<>> /\ s[Len(s)] \in Whitespace THEN RStrip(SubSeq(s, 1, Len(s) - 1)) ELSE s

\* str.strip()
Strip(s) == RStrip(LStrip(s))

\* A Python value as the JSON reply of the vision model can hold it: a str, an
\* int, a finite float (counted in tenths), an infinite float, a nan, None.
StrVal(s) == [kind |-> "str", s |-> s]

IntVal(n) == [kind |-> "int", v |-> n]

FloatVal(t) == [kind |-> "float", tenths |-> t]

InfVal == [kind |-> "inf"]

NanVal == [kind |-> "nan"]

NoneVal == [kind |-> "none"]

\* the digits of an integer literal: digits, single underscores between them
IsIntBody(b) ==
    /\ b # <<>>
    /\ \A j \in 1..Len(b) : IsDigit(b[j]) \/ b[j] = "_"
    /\ IsDigit(b[1]) /\ IsDigit(b[Len(b)])
    /\ \A j \in 1..(Len(b) - 1) : ~(b[j] = "_" /\ b[j + 1] = "_")

\* int(str): surrounding whitespace is dropped, then an optional sign and
\* the digits; anything else is a ValueError
IntOfStr(s) ==
    LET t == Strip(s)
        signed == t # <<>> /\ t[1] \in {"+", "-"}
        b == IF signed THEN Tail(t) ELSE t
        n == StrToInt(SelectSeq(b, IsDigit))
    IN  IF IsIntBody(b)
        THEN [ok |-> TRUE, v |-> IF signed /\ t[1] = "-" THEN 0 - n ELSE n]
        ELSE [ok |-> FALSE, exc |-> "ValueError"]

\* int(float) truncates toward zero
Trunc(t) == IF t >= 0 THEN t \div 10 ELSE 0 - ((0 - t) \div 10)

\* int(value): the integer, or the exception it raises
IntOf(value) ==
    CASE value.kind = "str" -> IntOfStr(value.s)
      [] value.kind = "int" -> [ok |-> TRUE, v |-> value.v]
      [] value.kind = "float" -> [ok |-> TRUE, v |-> Trunc(value.tenths)]
      [] value.kind = "inf" -> [ok |-> FALSE, exc |-> "OverflowError"]
      [] value.kind = "nan" -> [ok |-> FALSE, exc |-> "ValueError"]
      [] value.kind = "none" -> [ok |-> FALSE, exc |-> "TypeError"]

---------------------------------------------------------------------------
(* The field validator: ChatGPTVisionOCR._validate_number *)

\* the exceptions the except clause of _validate_number names
CaughtByValidateNumber == {"ValueError", "TypeError"}

_validate_number_raises(value) ==
    ~IntOf(value).ok /\ IntOf(value).exc \notin CaughtByValidateNumber

Max2(a, b) == IF a >= b THEN a ELSE b

Min2(a, b) == IF a <= b THEN a ELSE b

_validate_number(value, min_val, max_val) ==
    IF IntOf(value).ok
    THEN Max2(min_val, Min2(IntOf(value).v, max_val))
    ELSE min_val

\* longest str given to _validate_number
MaxRawLen == 3

RawAlphabet == {"2", "5", "-", " ", "_", "x"}

\* the bounds _validate_and_clean_soldiers passes
CountMin == 0

CountMax == 200

RawValues ==
    { StrVal(s) : s \in StringsUpTo(RawAlphabet, MaxRawLen) }
    \cup { IntVal(n) : n \in {0 - 1, CountMin, CountMax, CountMax + 1} }
    \cup { FloatVal(t) : t \in {0 - 15, 29, 10 * CountMax + 5} }
    \cup { InfVal, NanVal, NoneVal }

\* the ranges tried: the one of the code, and narrower ones inside it
RangeEnds == {CountMin, CountMin + 3, CountMax}

InitNumber ==
    /\ prog = "validator"
    /\ pc = "call"
    /\ \E value \in RawValues, lo \in RangeEnds, hi \in RangeEnds :
          /\ lo <= hi
          /\ args = [fn |-> "_validate_number", value |-> value,
                     min_val |-> lo, max_val |-> hi]
    /\ lines = <<>> /\ ret = NoResult
    /\ time_str = <<>> /\ time_out = <<>>
    /\ Idle

ValidateNumber ==
    /\ prog = "validator" /\ pc = "call"
    /\ "fn" \in DOMAIN args /\ args.fn = "_validate_number"
    /\ IF _validate_number_raises(args.value)
       THEN pc' = "raised" /\ ret' = ret
       ELSE pc' = "done"
            /\ ret' = [value |-> _validate_number(args.value, args.min_val, args.max_val)]
    /\ UNCHANGED <<prog, results, soldiers, raised, budget, all_soldiers, seen_names,
                   cur, final_result, returned, run, first_result, time_str, time_out,
                   lines, args>>

NextNumber == ValidateNumber

SpecNumber == InitNumber /\ [][NextNumber]_vars

\* C11 as stated: _validate_number returns min_val when the raw value cannot
\* be read as an integer and the integer clamped into [min_val, max_val] when
\* it can; it always returns, and what it returns lies in [min_val, max_val].
C11_ClampOrMin ==
    (prog = "validator" /\ pc \in {"done", "raised"}) =>
        /\ pc = "done"
        /\ ret.value = IF IntOf(args.value).ok
                       THEN Max2(args.min_val, Min2(IntOf(args.value).v, args.max_val))
                       ELSE args.min_val
        /\ args.min_val <= ret.value /\ ret.value <= args.max_val

---------------------------------------------------------------------------
(* The positional extractor: _extract_soldier_at_position and its copies *)

\* lines[idx] of a Python list, whose first index is 0
Line(ls, idx) == ls[idx + 1]

\* str.replace(old, ''): every occurrence of old is removed, left to right
RECURSIVE Remove(_, _)
Remove(s, old) ==
    IF s = <<>> THEN <<>>
    ELSE IF Len(s) >= Len(old) /\ SubSeq(s, 1, Len(old)) = old
         THEN Remove(SubSeq(s, Len(old) + 1, Len(s)), old)
         ELSE <<s[1]>> \o Remove(Tail(s), old)

\* the marker the extractors remove from a name line
PTE == <<"P", "T", "E">>

\* re.match(r'^\d+$', line)
MatchDigits(line) == Len(line) > 0 /\ \A j \in 1..Len(line) : IsDigit(line[j])

\* (faulty variant: any line that is not empty passes for a run time)
MatchRunTime_any(line) == line # <<>>

\* re.match(r'^\d{1,2}:\d{2}$', line)
MatchRunTime(line) ==
    \E k \in 1..2 :
        /\ Len(line) = k + 3
        /\ \A j \in 1..k : IsDigit(line[j])
        /\ line[k + 1] = ":"
        /\ IsDigit(line[k + 2]) /\ IsDigit(line[k + 3])

\* None, where a dict was expected
None == NoneVal

\* soldier_data['name']: lines[pos + 2], stripped, without 'PTE', stripped
NameAt(ls, pos) ==
    IF pos + 2 < Len(ls)
    THEN Strip(Remove(Strip(Line(ls, pos + 2)), PTE))
    ELSE <<>>

\* a repetition count read at lines[idx], 0 when there is none
CountAt(ls, idx) ==
    IF idx < Len(ls) /\ MatchDigits(Strip(Line(ls, idx)))
    THEN StrToInt(Strip(Line(ls, idx)))
    ELSE 0

\* a run time read at lines[idx], '' when there is none
RunTimeAt(ls, idx) ==
    IF idx < Len(ls) /\ MatchRunTime(Strip(Line(ls, idx)))
    THEN Strip(Line(ls, idx))
    ELSE <<>>

\* the serial '1' of the position lists
SerialOne == StrVal(<<"1">>)

\* (faulty variant: the first soldier is read like the others)
Offsets_same(serial) == <<6, 7, 8>>

\* where sit-ups, push-ups and run time are read, counted from the anchor
Offsets(serial) == IF serial = SerialOne THEN <<7, 8, 9>> ELSE <<6, 7, 8>>

\* (faulty variant: a record is returned whether it has a name or not)
ExtractedOrNone_always(soldier_data) == soldier_data

\* soldier_data if soldier_data['name'] else None
ExtractedOrNone(soldier_data) == IF soldier_data.name # <<>> THEN soldier_data ELSE None

\* foolproof_ocr_parser.py and api/foolproof_ocr_endpoint.py (the same code)
_extract_soldier_at_position(ls, pos, serial) ==
    LET offsets == Offsets(serial)
    IN  ExtractedOrNone(
            Soldier(NameAt(ls, pos), CountAt(ls, pos + offsets[1]),
                    CountAt(ls, pos + offsets[2]), RunTimeAt(ls, pos + offsets[3])))

\* a list without its None entries
RECURSIVE Compact(_)
Compact(list) ==
    IF list = <<>> THEN <<>>
    ELSE (IF Head(list) = None THEN <<>> ELSE <<Head(list)>>) \o Compact(Tail(list))

\* line.strip().isdigit() and 1 <= int(line.strip()) <= 10
IsSerialLine(line) ==
    /\ MatchDigits(Strip(line))
    /\ 1 <= StrToInt(Strip(line)) /\ StrToInt(Strip(line)) <= 10

\* _serial_number_strategy: every line that is a number from 1 to 10 is an
\* anchor, and the serial handed on is that number, an int
_serial_number_strategy(ls) ==
    Compact([i \in 1..Len(ls) |->
                IF IsSerialLine(ls[i])
                THEN _extract_soldier_at_position(ls, i - 1, IntVal(StrToInt(Strip(ls[i]))))
                ELSE None])

\* the anchors of the score sheet: (line, serial), the serial a str
soldier_positions ==
    << [pos |-> 23, serial |-> StrVal(<<"1">>)], [pos |-> 33, serial |-> StrVal(<<"2">>)],
       [pos |-> 42, serial |-> StrVal(<<"3">>)], [pos |-> 51, serial |-> StrVal(<<"4">>)],
       [pos |-> 60, serial |-> StrVal(<<"5">>)], [pos |-> 69, serial |-> StrVal(<<"6">>)],
       [pos |-> 78, serial |-> StrVal(<<"7">>)], [pos |-> 87, serial |-> StrVal(<<"8">>)],
       [pos |-> 96, serial |-> StrVal(<<"9">>)],
       [pos |-> 105, serial |-> StrVal(<<"1", "0">>)] >>

\* integrate_working_parser.py: the body of the loop over soldier_positions
WorkingMethodAt(ls, pos, serial) ==
    LET name == IF pos + 2 < Len(ls)
                THEN Strip(Remove(Strip(Line(ls, pos + 2)), PTE))
                ELSE <<>>
        soldier_data ==
            IF serial = SerialOne
            THEN Soldier(name, CountAt(ls, pos + 7), CountAt(ls, pos + 8),
                         RunTimeAt(ls, pos + 9))
            ELSE Soldier(name, CountAt(ls, pos + 6), CountAt(ls, pos + 7),
                         RunTimeAt(ls, pos + 8))
    IN  IF soldier_data.name # <<>> THEN soldier_data ELSE None

\* the dict parse_ippt_with_working_method returns
WorkingMethodResult(list) ==
    [soldiers |-> list, total_soldiers |-> Len(list),
     method |-> "working_line_based_parser", success |-> TRUE]

parse_ippt_with_working_method(ls) ==
    WorkingMethodResult(
        Compact([k \in 1..Len(soldier_positions) |->
                    WorkingMethodAt(ls, soldier_positions[k].pos,
                                    soldier_positions[k].serial)]))

\* working_manual_parser.py: the body of the loop over soldier_positions; an
\* anchor is skipped when its line is missing or does not hold its serial
ManualAt(ls, pos, serial) ==
    IF pos >= Len(ls) THEN None
    ELSE IF Strip(Line(ls, pos)) # serial.s THEN None
    ELSE LET name == IF pos + 2 < Len(ls)
                     THEN Strip(Remove(Strip(Line(ls, pos + 2)), PTE))
                     ELSE <<>>
             soldier_data ==
                 IF serial = SerialOne
                 THEN Soldier(name, CountAt(ls, pos + 7), CountAt(ls, pos + 8),
                              RunTimeAt(ls, pos + 9))
                 ELSE Soldier(name, CountAt(ls, pos + 6), CountAt(ls, pos + 7),
                              RunTimeAt(ls, pos + 8))
         IN  IF soldier_data.name # <<>> THEN soldier_data ELSE None

parse_all_soldiers_correctly(ls) ==
    [soldiers |->
        Compact([k \in 1..Len(soldier_positions) |->
                    ManualAt(ls, soldier_positions[k].pos, soldier_positions[k].serial)])]

\* api/custom-azure-form-recognizer.py, extract_with_custom_model: a form is
\* kept when it has a name and sit-ups or a run time (its confidence is left
\* out of the model)
KeepForm(soldier_data) ==
    /\ soldier_data.name # <<>>
    /\ (soldier_data.sit_up_reps > 0 \/ soldier_data.run_time # <<>>)

CustomModelResponse(forms) ==
    [soldiers |-> SelectSeq(forms, KeepForm),
     total_soldiers |-> Len(SelectSeq(forms, KeepForm)),
     model_used |-> "IPPT_MODEL_ID", success |-> TRUE]

\* what the except branch of extract_with_custom_model answers
CustomModelError == [error |-> "exception", soldiers |-> <<>>, success |-> FALSE]

---------------------------------------------------------------------------
(* The text the extractors are run on *)

\* lines appended after a soldier's block
MaxPad == 1

\* forms the custom model recognizes in one image
MaxForms == 2

ABC == <<"a", "b", "c">>

X == <<"x">>

ID001 == <<"I", "D", "0", "0", "1">>

PteJohnTan == <<"P", "T", "E", " ", "J", "O", "H", "N", " ", "T", "A", "N">>

JohnTan == <<"J", "O", "H", "N", " ", "T", "A", "N">>

L35 == <<"3", "5">>

L40 == <<"4", "0">>

\* what stands on the anchor line
SerialLines == { <<"1">>, <<" ", "2", " ">>, ABC }

\* what stands two lines below the anchor
NameLines ==
    { PteJohnTan,
      <<>>,
      PTE,
      <<" ", "C", "P", "L", " ", "B", "O", " ">>,
      <<"P", "T", "E", " ", "S", "E", "P", "T", "E", "M">> }

\* what stands six lines below the anchor: a tag, or a number
TagLines == { X, <<" ", "7", " ">> }

\* what stands on the three lines after that
SlotLines == { L35, L40, T930, ABC }

\* n lines of no interest
Filler(n) == [i \in 1..n |-> X]

\* one soldier's lines on the sheet
Block(l0, name, l6, l7, l8, l9) ==
    <<l0, ID001, name, X, X, X, l6, l7, l8, l9>>

\* the block starts the text, or stands at the sheet's first anchor
Leads == {0, soldier_positions[1].pos}

\* content.split('\n') of a text: never an empty list; a block, after its
\* lead and followed by pad lines, cut at any length; the serial line is
\* drawn from S0, the lines 7 and 8 below it from S7 and S8
BlockTexts(S0, S7, S8, pad) ==
    UNION { { SubSeq(Filler(lead) \o Block(l0, name, l6, l7, l8, l9) \o Filler(pad), 1, n) :
                n \in Max2(1, lead)..(lead + 10 + pad),
                l0 \in S0, name \in NameLines, l6 \in TagLines,
                l7 \in S7, l8 \in S8, l9 \in SlotLines } :
            lead \in Leads }

LineInputs(pad) == BlockTexts(SerialLines, SlotLines, SlotLines, pad)

\* the anchors _extract_soldier_at_position is tried at
Anchors == Leads \cup {1}

\* the serials it is given: the str of a position list, the int of
\* _serial_number_strategy
Serials == { SerialOne, StrVal(<<"2">>), IntVal(1) }

\* the fields of a recognized form
FormPool ==
    { Soldier(JohnTan, 35, 40, T930),
      Soldier(JohnTan, 0, 40, <<>>),
      Soldier(<<>>, 35, 0, <<>>) }

InitExtractor ==
    /\ prog = "extractor"
    /\ pc = "call"
    /\ lines \in LineInputs(MaxPad)
    /\ args = NoResult /\ ret = NoResult
    /\ time_str = <<>> /\ time_out = <<>>
    /\ Idle

InitCustomModel ==
    /\ prog = "custom_model"
    /\ pc = "call"
    /\ lines = <<>>
    /\ args = NoResult /\ ret = NoResult
    /\ time_str = <<>> /\ time_out = <<>>
    /\ Idle

\* an extractor is called on the lines and returns
Call(a, value) ==
    /\ pc = "call"
    /\ pc' = "done"
    /\ args' = a
    /\ ret' = [value |-> value]
    /\ UNCHANGED <<prog, results, soldiers, raised, budget, all_soldiers, seen_names,
                   cur, final_result, returned, run, first_result, time_str, time_out,
                   lines>>

ExtractSoldierAtPosition ==
    /\ prog = "extractor"
    /\ \E pos \in Anchors, serial \in Serials :
          Call([fn |-> "_extract_soldier_at_position", pos |-> pos, serial |-> serial],
               _extract_soldier_at_position(lines, pos, serial))

WorkingMethodBody ==
    /\ prog = "extractor"
    /\ \E pos \in Anchors, serial \in Serials \cap {SerialOne, StrVal(<<"2">>)} :
          Call([fn |-> "WorkingMethodAt", pos |-> pos, serial |-> serial],
               WorkingMethodAt(lines, pos, serial))

ManualBody ==
    /\ prog = "extractor"
    /\ \E pos \in Anchors, serial \in Serials \cap {SerialOne, StrVal(<<"2">>)} :
          Call([fn |-> "ManualAt", pos |-> pos, serial |-> serial],
               ManualAt(lines, pos, serial))

SerialNumberStrategy ==
    /\ prog = "extractor"
    /\ Call([fn |-> "_serial_number_strategy"], _serial_number_strategy(lines))

ParseWithWorkingMethod ==
    /\ prog = "extractor"
    /\ Call([fn |-> "parse_ippt_with_working_method"],
            parse_ippt_with_working_method(lines))

ParseAllSoldiersCorrectly ==
    /\ prog = "extractor"
    /\ Call([fn |-> "parse_all_soldiers_correctly"], parse_all_soldiers_correctly(lines))

\* the service answers with the forms it recognized, or the request fails
ExtractWithCustomModel ==
    /\ prog = "custom_model"
    /\ \E forms \in StringsUpTo(FormPool, MaxForms) :
          \/ Call([fn |-> "extract_with_custom_model", forms |-> forms],
                  CustomModelResponse(forms))
          \/ Call([fn |-> "extract_with_custom_model", forms |-> forms],
                  CustomModelError)

InitExtract == InitExtractor \/ InitCustomModel

NextExtract ==
    \/ ExtractSoldierAtPosition
    \/ WorkingMethodBody
    \/ ManualBody
    \/ SerialNumberStrategy
    \/ ParseWithWorkingMethod
    \/ ParseAllSoldiersCorrectly
    \/ ExtractWithCustomModel

SpecExtract == InitExtract /\ [][NextExtract]_vars

---------------------------------------------------------------------------
(* Properties of the positional extractor *)

\* the call that returned is one of the three copies of the extractor's body
PositionalCall ==
    /\ prog = "extractor" /\ pc = "done"
    /\ args.fn \in {"_extract_soldier_at_position", "WorkingMethodAt", "ManualAt"}
    /\ args.serial.kind = "str"

\* the line at index idx, stripped, is digits only
IsCountLine(ls, idx) ==
    idx < Len(ls) /\ Strip(Line(ls, idx)) # <<>>
                  /\ \A j \in 1..Len(Strip(Line(ls, idx))) : Strip(Line(ls, idx))[j] \in Digits

\* the line at index idx, stripped, is a time: one or two digits, a colon,
\* two digits
IsTimeLine(ls, idx) == idx < Len(ls) /\ IsTimePattern(Strip(Line(ls, idx)))

\* the first metric's distance from the anchor, as C12 and C13 state it
FirstSlot == IF args.serial = SerialOne THEN 7 ELSE 6

\* the sheet of the example: serial, id, name, four other lines, the metrics
ExampleLines == <<<<"1">>, ID001, PteJohnTan, X, X, X, X, L35, L40, T930>>

\* C12: the positional extractor reads sit-ups, push-ups and run time from
\* lines p+7, p+8, p+9 for the first record and from p+6, p+7, p+8 for the
\* others; on the example sheet, anchored at line 0 as the first record, it
\* yields JOHN TAN, 35, 40, 9:30.
C12_SlotOffsets ==
    (PositionalCall /\ ret.value # None) =>
        LET p == args.pos + FirstSlot
        IN  /\ IsCountLine(lines, p) =>
                ret.value.sit_up_reps = StrToInt(Strip(Line(lines, p)))
            /\ IsCountLine(lines, p + 1) =>
                ret.value.push_up_reps = StrToInt(Strip(Line(lines, p + 1)))
            /\ IsTimeLine(lines, p + 2) =>
                ret.value.run_time = Strip(Line(lines, p + 2))
            /\ (lines = ExampleLines /\ args.pos = 0 /\ args.serial = SerialOne) =>
                ret.value = Soldier(JohnTan, 35, 40, T930)

\* the example sheet has been read at anchor 0 as the first record
C12_Witness ==
    /\ PositionalCall /\ args.fn = "_extract_soldier_at_position"
    /\ lines = ExampleLines /\ args.pos = 0 /\ args.serial = SerialOne
    /\ ret.value = Soldier(JohnTan, 35, 40, T930)

\* C13: a metric whose line lies beyond the end of the text, or is not
\* digits only, stays 0; a run time whose line lies beyond the end, or is
\* not a time, stays ''.
C13_DefaultsKept ==
    (PositionalCall /\ ret.value # None) =>
        LET p == args.pos + FirstSlot
        IN  /\ ~IsCountLine(lines, p) => ret.value.sit_up_reps = 0
            /\ ~IsCountLine(lines, p + 1) => ret.value.push_up_reps = 0
            /\ ~IsTimeLine(lines, p + 2) => ret.value.run_time = <<>>

\* a record was returned whose run-time line lies beyond the end of the text
\* and whose sit-up line is "abc"
C13_Witness ==
    /\ PositionalCall /\ ret.value # None
    /\ args.pos + FirstSlot + 2 >= Len(lines)
    /\ args.pos + FirstSlot < Len(lines)
    /\ Line(lines, args.pos + FirstSlot) = ABC
    /\ ret.value.sit_up_reps = 0 /\ ret.value.run_time = <<>>

\* the rank tokens the code recognizes on a name line (_name_based_strategy)
RankTokens ==
    { PTE, <<"L", "T", "A">>, <<"C", "P", "L">>, <<"S", "G", "T">>,
      <<"2", "L", "T">>, <<"C", "P", "T">> }

\* a text without the rank token it starts with, if it starts with one
WithoutRankPrefix(s) ==
    IF Len(s) >= 3 /\ SubSeq(s, 1, 3) \in RankTokens THEN SubSeq(s, 4, Len(s)) ELSE s

\* the identity C18 describes: the name line with its leading rank token
\* removed and the whitespace around the rest trimmed
IdentityOf(line) == Strip(WithoutRankPrefix(Strip(line)))

\* C18 as stated: the identity is the line at p+2 with a leading rank token
\* removed and the result trimmed; every other character is preserved, and
\* each recognized rank token is removed when it is the prefix.
C18_RankPrefixStripped ==
    (PositionalCall /\ args.pos + 2 < Len(lines)) =>
        LET identity == IdentityOf(Line(lines, args.pos + 2))
        IN  IF ret.value = None
            THEN identity = <<>> \/ args.fn = "ManualAt"
            ELSE ret.value.name = identity

\* the anchors C20 is about: 0-based indexes of lines that are a number in 1..10
SerialAnchors == {i \in 0..(Len(lines) - 1) : IsSerialLine(Line(lines, i))}

\* what the positional extractor yields for anchor (i, k), k the number on line i
PositionalAt(i) ==
    _extract_soldier_at_position(lines, i, StrVal(IntToStr(StrToInt(Strip(Line(lines, i))))))

\* C20 as stated: for every line that is a number k in 1..10 the serial-anchor
\* strategy yields the record the positional extractor yields for that anchor
\* and serial (metrics at i+7, i+8, i+9 for k = 1, at i+6, i+7, i+8 otherwise).
C20_SerialAnchorsAgree ==
    (prog = "extractor" /\ pc = "done" /\ args.fn = "_serial_number_strategy") =>
        ret.value = Compact([j \in 1..Len(lines) |->
                                IF j - 1 \in SerialAnchors THEN PositionalAt(j - 1) ELSE None])

\* C17 as stated: a standalone entry point that extracted no record returns
\* an empty record list, the count 0 and success false.
C17_NothingExtracted ==
    (/\ pc = "done"
     /\ prog \in {"extractor", "custom_model"}
     /\ args.fn \in {"parse_ippt_with_working_method", "extract_with_custom_model"}
     /\ "error" \notin DOMAIN ret.value
     /\ ret.value.soldiers = <<>>) =>
        /\ ret.value.total_soldiers = 0
        /\ ret.value.success = FALSE

---------------------------------------------------------------------------
(* The reconcilers called on their own, on any list of strategy results *)

\* the candidates handed to one call
MaxUnit == 3

UnitPool ==
    { Soldier(PteJohnTan, 35, 40, T930),
      Soldier(JohnTan, 38, 0, <<>>),
      Soldier(Name(1), 21, 40, T930),
      Soldier(Name(2), 22, 0, <<>>) }

\* the orders in which the three results can be passed
MethodOrders ==
    { o \in [1..3 -> {"azure_ocr", "pattern_based", "fallback"}] :
        \A i, j \in 1..3 : i # j => o[i] # o[j] }

\* results: three lists of candidates, each under its method, in any order
ResultLists(n) ==
    UNION { { [k \in 1..3 |->
                 [method |-> o[k],
                  soldiers |-> CASE k = 1 -> SubSeq(S, 1, i)
                                 [] k = 2 -> SubSeq(S, i + 1, Max2(i, j))
                                 [] k = 3 -> SubSeq(S, Max2(i, j) + 1, Len(S))]] :
              i \in 0..Len(S), j \in 0..Len(S), o \in MethodOrders } :
            S \in StringsUpTo(UnitPool, n) }

InitCombineParser ==
    /\ prog = "parser"
    /\ pc = "combine"
    /\ results \in ResultLists(MaxUnit)
    /\ soldiers = <<>> /\ raised = {} /\ budget = 0
    /\ all_soldiers = <<>> /\ seen_names = {} /\ cur = EndCur
    /\ final_result = NoResult /\ returned = NoResult
    /\ run = 1 /\ first_result = NoResult
    /\ time_str = <<>> /\ time_out = <<>>
    /\ NoCall

InitCombineEndpoint ==
    /\ prog = "endpoint"
    /\ pc = "combine"
    /\ soldiers \in StringsUpTo(UnitPool, MaxUnit)
    /\ results = <<[method |-> "working_line_based", soldiers |-> soldiers]>>
    /\ raised = {} /\ budget = 0
    /\ all_soldiers = <<>> /\ seen_names = {} /\ cur = EndCur
    /\ final_result = NoResult /\ returned = NoResult
    /\ run = 1 /\ first_result = NoResult
    /\ time_str = <<>> /\ time_out = <<>>
    /\ NoCall

InitCombine == InitCombineParser \/ InitCombineEndpoint

NextCombine ==
    \/ CombineBegin
    \/ CombineStep
    \/ CombineEnd
    \/ ExportAndReturn
    \/ DedupBegin
    \/ DedupStep
    \/ DedupEnd

SpecCombine == InitCombine /\ [][NextCombine]_vars

\* an identity as the spec normalizes it: trimmed, the marker token removed
Normalized(name) == Strip(Remove(Strip(name), PTE))

\* C15 as stated: the reconciler normalizes a candidate's identity before the
\* seen test, so of two candidates whose identities differ only by whitespace
\* or by the marker token only the first is kept.
C15_NormalizedIdentity ==
    Reconciled =>
        \A j, k \in 1..Len(final_result.soldiers) :
            j # k => Normalized(final_result.soldiers[j].name)
                        # Normalized(final_result.soldiers[k].name)

\* the place of a strategy in the order C19 states
StrategyRank(method) ==
    CASE method = "azure_ocr" -> 1
      [] method = "pattern_based" -> 2
      [] method = "fallback" -> 3

\* p comes before q: its strategy ranks higher, or it is the same strategy and
\* p stands earlier in that strategy's list
RankedBefore(p, q) ==
    \/ StrategyRank(results[p[1]].method) < StrategyRank(results[q[1]].method)
    \/ p[1] = q[1] /\ p[2] < q[2]

\* where an output record comes from: the first candidate equal to it
SourceOf(o) ==
    CHOOSE p \in Cands :
        /\ CandAt(p) = o
        /\ \A q \in Cands : (CandAt(q) = o /\ q # p) => RankedBefore(p, q)

\* C19: in the output of _combine_and_validate the records of the spatial
\* strategy come before those of the pattern-based one, which come before
\* those of the fallback, in whatever order the results were passed; records
\* of one strategy keep the order they had in its list.
C19_PriorityOrder ==
    (Reconciled /\ prog = "parser") =>
        \A j, k \in 1..Len(final_result.soldiers) :
            j < k => RankedBefore(SourceOf(final_result.soldiers[j]),
                                  SourceOf(final_result.soldiers[k]))

\* the fallback's result was passed before the spatial one, both have a record
\* in the output, and the spatial one's record comes first; and two records of
\* one strategy are in the output
C19_Witness ==
    /\ Reconciled /\ prog = "parser"
    /\ \E j, k \in 1..Len(final_result.soldiers) :
          /\ j < k
          /\ results[SourceOf(final_result.soldiers[j])[1]].method = "azure_ocr"
          /\ results[SourceOf(final_result.soldiers[k])[1]].method = "fallback"
          /\ SourceOf(final_result.soldiers[k])[1] < SourceOf(final_result.soldiers[j])[1]
    /\ \E j, k \in 1..Len(final_result.soldiers) :
          /\ j < k
          /\ SourceOf(final_result.soldiers[j])[1] = SourceOf(final_result.soldiers[k])[1]

---------------------------------------------------------------------------
(* The two plausibility validators, applied to one record *)

\* the records they are given: names of 0, 1, 2 and 8 characters, counts at
\* and next to the bounds of the two validators
SoldierInputs ==
    { Soldier(n, a, b, t) :
        n \in {<<>>, <<"A">>, Name(1), JohnTan},
        a \in {0, 35, MaxSitUp, MaxSitUp + 1},
        b \in {0, 40, MaxPushUpEndpoint, MaxPushUpEndpoint + 1,
               MaxPushUpParser, MaxPushUpParser + 1},
        t \in {<<>>, T930} }

InitValidators ==
    /\ prog = "validator"
    /\ pc = "call"
    /\ \E soldier \in SoldierInputs :
          args = [fn |-> "is_plausible_record", soldier |-> soldier]
    /\ lines = <<>> /\ ret = NoResult
    /\ time_str = <<>> /\ time_out = <<>>
    /\ Idle

\* FoolproofOCRParser._validate_soldier_data of foolproof_ocr_parser.py
ValidateSoldierData ==
    /\ prog = "validator" /\ pc = "call"
    /\ args.fn = "is_plausible_record"
    /\ ret' = [parser |-> _validate_soldier_data(args.soldier)]
    /\ pc' = "endpoint"
    /\ UNCHANGED <<prog, results, soldiers, raised, budget, all_soldiers, seen_names,
                   cur, final_result, returned, run, first_result, time_str, time_out,
                   lines, args>>

\* FoolproofOCRParser._validate_soldier of api/foolproof_ocr_endpoint.py
ValidateSoldier ==
    /\ prog = "validator" /\ pc = "endpoint"
    /\ args.fn = "is_plausible_record"
    /\ ret' = [parser |-> ret.parser, endpoint |-> _validate_soldier(args.soldier)]
    /\ pc' = "done"
    /\ UNCHANGED <<prog, results, soldiers, raised, budget, all_soldiers, seen_names,
                   cur, final_result, returned, run, first_result, time_str, time_out,
                   lines, args>>

NextValidators == ValidateSoldierData \/ ValidateSoldier

SpecValidators == InitValidators /\ [][NextValidators]_vars

\* C16 as stated: a record is plausible exactly when its identity has at
\* least 2 characters, it has meaningful data, and sit-ups and push-ups are
\* each at most 200; the validator of the endpoint and the validator of the
\* parser give the same verdict on every record.
C16_SameVerdict ==
    (prog = "validator" /\ pc = "done" /\ args.fn = "is_plausible_record") =>
        LET r == args.soldier
            plausible ==
                /\ Len(r.name) >= 2
                /\ HasData(r)
                /\ r.sit_up_reps <= 200
                /\ r.push_up_reps <= 200
        IN  /\ ret.endpoint = plausible
            /\ ret.parser = plausible
            /\ ret.parser = ret.endpoint

---------------------------------------------------------------------------
(* The heuristic sub-strategies of foolproof_ocr_parser.py *)

UpperChars ==
    {"A", "B", "C", "D", "E", "F", "G", "H", "I", "J", "K", "L", "M",
     "N", "O", "P", "Q", "R", "S", "T", "U", "V", "W", "X", "Y", "Z"}

LowerChars ==
    {"a", "b", "c", "d", "e", "f", "g", "h", "i", "j", "k", "l", "m",
     "n", "o", "p", "q", "r", "s", "t", "u", "v", "w", "x", "y", "z"}

\* str.isupper(): some cased character, and no lower-case one
IsUpper(s) ==
    /\ \E j \in 1..Len(s) : s[j] \in UpperChars
    /\ \A j \in 1..Len(s) : s[j] \notin LowerChars

\* sub in s
Contains(s, sub) ==
    \E i \in 1..(Len(s) - Len(sub) + 1) : SubSeq(s, i, i + Len(sub) - 1) = sub

\* lines[a:b] of a Python list
Slice(ls, a, b) == SubSeq(ls, a + 1, Min2(b, Len(ls)))

\* (faulty variant: a later number takes the place of an earlier one)
AssignNumber_last(sd, num) ==
    IF 5 <= num /\ num <= 80
    THEN [sd EXCEPT !.sit_up_reps = num]
    ELSE IF num <= 2000
         THEN [sd EXCEPT !.push_up_reps = num]
         ELSE sd

\* a digit-only line with value num is met: it becomes the sit-ups when it
\* is in 5..80 and no sit-ups are held, else the push-ups when it is at most
\* 2000 and no push-ups are held; a field that holds 0 counts as not held
AssignNumber(sd, num) ==
    IF 5 <= num /\ num <= 80 /\ sd.sit_up_reps = 0
    THEN [sd EXCEPT !.sit_up_reps = num]
    ELSE IF num <= 2000 /\ sd.push_up_reps = 0
         THEN [sd EXCEPT !.push_up_reps = num]
         ELSE sd

\* 'PTE' in line or (line.isupper() and len(line) > 3)
LooksLikeName(line) == Contains(line, PTE) \/ (IsUpper(line) /\ Len(line) > 3)

\* one pass of the loop of _extract_from_block, on the stripped line
BlockStep(sd, line) ==
    IF LooksLikeName(line) THEN [sd EXCEPT !.name = Strip(Remove(line, PTE))]
    ELSE IF MatchDigits(line) THEN AssignNumber(sd, StrToInt(line))
    ELSE IF MatchRunTime(line) THEN [sd EXCEPT !.run_time = line]
    ELSE sd

RECURSIVE BlockFold(_, _)
BlockFold(block, sd) ==
    IF block = <<>> THEN sd
    ELSE BlockFold(Tail(block), BlockStep(sd, Strip(Head(block))))

_extract_from_block(block) ==
    LET soldier_data == BlockFold(block, Soldier(<<>>, 0, 0, <<>>))
    IN  IF soldier_data.name # <<>>
           /\ (soldier_data.sit_up_reps > 0 \/ soldier_data.run_time # <<>>)
        THEN soldier_data
        ELSE None

\* the size of the window of _aggressive_extraction
WindowSize == 20

\* range(len(lines) - 20): the start lines the loop of _aggressive_extraction
\* goes through
WindowStarts(ls) == 0..(Len(ls) - WindowSize - 1)

\* x in list
InList(x, list) == \E j \in 1..Len(list) : list[j] = x

RECURSIVE AggressiveFold(_, _, _)
AggressiveFold(ls, start_line, acc) ==
    IF start_line \notin WindowStarts(ls) THEN acc
    ELSE LET soldier == _extract_from_block(Slice(ls, start_line, start_line + WindowSize))
         IN  AggressiveFold(ls, start_line + 1,
                            IF soldier # None /\ ~InList(soldier, acc)
                            THEN Append(acc, soldier) ELSE acc)

_aggressive_extraction(ls) == Truncate(AggressiveFold(ls, 0, <<>>))

UpperLetters ==
    <<"A", "B", "C", "D", "E", "F", "G", "H", "I", "J", "K", "L", "M",
      "N", "O", "P", "Q", "R", "S", "T", "U", "V", "W", "X", "Y", "Z">>

LowerLetters ==
    <<"a", "b", "c", "d", "e", "f", "g", "h", "i", "j", "k", "l", "m",
      "n", "o", "p", "q", "r", "s", "t", "u", "v", "w", "x", "y", "z">>

\* str.upper()
Upper(s) ==
    [j \in 1..Len(s) |->
        IF s[j] \in LowerChars
        THEN UpperLetters[CHOOSE k \in 1..26 : LowerLetters[k] = s[j]]
        ELSE s[j]]

\* the ranks _name_based_strategy looks for
Ranks ==
    { PTE, <<"L", "T", "A">>, <<"C", "P", "L">>, <<"S", "G", "T">>,
      <<"2", "L", "T">>, <<"C", "P", "T">> }

\* any(rank in line.upper() for rank in [...])
HasRank(line) == LET upper == Upper(line) IN \E rank \in Ranks : Contains(upper, rank)

\* one pass of the loop of _extract_data_around_name, on the stripped line
AroundNameStep(sd, line) ==
    IF MatchDigits(line) THEN AssignNumber(sd, StrToInt(line))
    ELSE IF MatchRunTime(line) /\ sd.run_time = <<>> THEN [sd EXCEPT !.run_time = line]
    ELSE sd

\* the loop of _extract_data_around_name from line i up to, not including, line hi
RECURSIVE AroundNameFold(_, _, _, _)
AroundNameFold(ls, i, hi, sd) ==
    IF i >= hi THEN sd
    ELSE AroundNameFold(ls, i + 1, hi, AroundNameStep(sd, Strip(Line(ls, i))))

_extract_data_around_name(ls, name_index) ==
    LET soldier_data ==
            AroundNameFold(ls, Max2(0, name_index - 5), Min2(Len(ls), name_index + 15),
                           Soldier(Strip(Remove(Line(ls, name_index), PTE)), 0, 0, <<>>))
    IN  IF soldier_data.sit_up_reps > 0 \/ soldier_data.run_time # <<>>
        THEN soldier_data
        ELSE None

_name_based_strategy(ls) ==
    Compact([j \in 1..Len(ls) |->
                IF HasRank(ls[j]) THEN _extract_data_around_name(ls, j - 1) ELSE None])

\* max(0, run_index - 10): where the scan back stops, this line not included
ContextStop(run_index) == Max2(0, run_index - 10)

\* the loop of _extract_from_performance_context from line i down to, not
\* including, line lo; it ends at the first line that looks like a name
RECURSIVE ContextFold(_, _, _, _)
ContextFold(ls, i, lo, sd) ==
    IF i <= lo THEN sd
    ELSE LET line == Strip(Line(ls, i))
         IN  IF MatchDigits(line)
             THEN ContextFold(ls, i - 1, lo, AssignNumber(sd, StrToInt(line)))
             ELSE IF LooksLikeName(line)
                  THEN [sd EXCEPT !.name = Strip(Remove(line, PTE))]
                  ELSE ContextFold(ls, i - 1, lo, sd)

_extract_from_performance_context(ls, run_index) ==
    LET soldier_data ==
            ContextFold(ls, run_index - 1, ContextStop(run_index),
                        Soldier(<<>>, 0, 0, Line(ls, run_index)))
    IN  IF soldier_data.name # <<>> THEN soldier_data ELSE None

_performance_data_strategy(ls) ==
    Compact([j \in 1..Len(ls) |->
                IF MatchRunTime(Strip(ls[j]))
                THEN _extract_from_performance_context(ls, j - 1)
                ELSE None])

---------------------------------------------------------------------------
(* The heuristic sub-strategies, run on a text *)

\* sheets of two soldiers, at the first two anchors
Sheets ==
    { Filler(soldier_positions[1].pos)
        \o Block(l0, name1, X, L35, L40, T930)
        \o Block(<<" ", "2", " ">>, name2, L35, L40, T930, X) :
        l0 \in SerialLines, name1 \in NameLines, name2 \in NameLines }

\* texts of one block, those of them that start at the name line of the
\* block, blocks with a count of 0, and the sheets of two soldiers
PatternInputs(pad) ==
    LET texts == BlockTexts({<<"1">>, ABC}, {L35, ABC}, {L40, T930, ABC}, pad)
    IN  texts
        \cup { SubSeq(ls, 3, Len(ls)) :
                 ls \in {x \in texts : 3 <= Len(x) /\ Len(x) <= 10 + pad} }
        \cup { Block(ABC, PteJohnTan, X, <<"0">>, l8, l9) : l8 \in SlotLines, l9 \in SlotLines }
        \cup Sheets

InitPattern ==
    /\ prog = "extractor"
    /\ pc = "call"
    /\ lines \in PatternInputs(MaxPad)
    /\ args = NoResult /\ ret = NoResult
    /\ time_str = <<>> /\ time_out = <<>>
    /\ Idle

\* _aggressive_extraction; the start lines its loop went through are kept
\* with what it returned
AggressiveExtraction ==
    /\ prog = "extractor" /\ pc = "call"
    /\ pc' = "done"
    /\ args' = [fn |-> "_aggressive_extraction"]
    /\ ret' = [value |-> _aggressive_extraction(lines), windows |-> WindowStarts(lines)]
    /\ UNCHANGED <<prog, results, soldiers, raised, budget, all_soldiers, seen_names,
                   cur, final_result, returned, run, first_result, time_str, time_out,
                   lines>>

\* _performance_data_strategy meets a line that is a time
ExtractFromPerformanceContext ==
    /\ prog = "extractor" /\ pc = "call"
    /\ \E r \in 0..(Len(lines) - 1) :
          /\ MatchRunTime(Strip(Line(lines, r)))
          /\ Call([fn |-> "_extract_from_performance_context", run_index |-> r],
                  _extract_from_performance_context(lines, r))

\* _name_based_strategy meets a line that holds a rank
ExtractDataAroundName ==
    /\ prog = "extractor" /\ pc = "call"
    /\ \E n \in 0..(Len(lines) - 1) :
          /\ HasRank(Line(lines, n))
          /\ Call([fn |-> "_extract_data_around_name", name_index |-> n],
                  _extract_data_around_name(lines, n))

\* C21 as stated: the windows of the block scan cover the whole text, whatever
\* its length: every line, the last one included, lies in a window scanned.
C21_WindowsCoverInput ==
    (prog = "extractor" /\ pc = "done" /\ args.fn = "_aggressive_extraction") =>
        \A i \in 0..(Len(lines) - 1) :
            \E start_line \in ret.windows : start_line <= i /\ i < start_line + 20

\* the lines C22 lets the time anchor at r look at: r-1 down to max(0, r-10)
BackWindow(r) == Max2(0, r - 10)..(r - 1)

\* those of them that are identity-marker lines
MarkersBack(r) == {i \in BackWindow(r) : LooksLikeName(Strip(Line(lines, i)))}

\* the nearest of them
NearestMarker(r) == CHOOSE m \in MarkersBack(r) : \A i \in MarkersBack(r) : i <= m

\* the values of the digit-only lines strictly between lines m and r
NumbersBetween(m, r) ==
    { StrToInt(Strip(Line(lines, i))) :
        i \in {j \in (m + 1)..(r - 1) : MatchDigits(Strip(Line(lines, j)))} }

\* C22 as stated: for a time line at r, when the nearest identity-marker line
\* lies among lines r-1 .. max(0, r-10), line 0 and distance 10 included, the
\* time anchor yields a record of that identity, with the time of line r and
\* with metrics that are values of digit-only lines between the two; it uses
\* no line further back.
C22_BackwardScan ==
    (prog = "extractor" /\ pc = "done"
        /\ args.fn = "_extract_from_performance_context") =>
        LET r == args.run_index
            m == NearestMarker(r)
            identity == Strip(Remove(Strip(Line(lines, m)), PTE))
        IN  /\ (MarkersBack(r) # {} /\ identity # <<>>) =>
                  /\ ret.value # None
                  /\ ret.value.name = identity
                  /\ ret.value.run_time = Strip(Line(lines, r))
                  /\ ret.value.sit_up_reps \in {0} \cup NumbersBetween(m, r)
                  /\ ret.value.push_up_reps \in {0} \cup NumbersBetween(m, r)
            /\ ret.value # None => MarkersBack(r) # {}

\* the lines _extract_data_around_name reads for the name line n: 5 before it
\* to 14 after it
AroundWindow(n) == {i \in 0..(Len(lines) - 1) : n - 5 <= i /\ i < n + 15}

\* the value of the digit-only line i
ValueAt(i) == StrToInt(Strip(Line(lines, i)))

\* the digit-only lines of the window whose value lies in lo..hi
NumberLines(n, lo, hi) ==
    {i \in AroundWindow(n) : /\ MatchDigits(Strip(Line(lines, i)))
                             /\ lo <= ValueAt(i) /\ ValueAt(i) <= hi}

\* the least index of a set of line indexes that is not empty
FirstLine(I) == CHOOSE i \in I : \A j \in I : i <= j

\* the fields C23 gives the record of name line n, the lowest value that
\* counts for metric_b being low_b
FieldsAround(n, low_b) ==
    LET A == NumberLines(n, 5, 80)
        B == NumberLines(n, low_b, 2000) \ (IF A = {} THEN {} ELSE {FirstLine(A)})
        T == {i \in AroundWindow(n) : MatchRunTime(Strip(Line(lines, i)))}
    IN  [sit_up_reps |-> IF A = {} THEN 0 ELSE ValueAt(FirstLine(A)),
         push_up_reps |-> IF B = {} THEN 0 ELSE ValueAt(FirstLine(B)),
         run_time |-> IF T = {} THEN <<>> ELSE Strip(Line(lines, FirstLine(T)))]

\* _extract_data_around_name returned a record
AroundNameReturned ==
    /\ prog = "extractor" /\ pc = "done"
    /\ args.fn = "_extract_data_around_name"
    /\ ret.value # None

\* the fields of the record returned
FieldsReturned ==
    [sit_up_reps |-> ret.value.sit_up_reps, push_up_reps |-> ret.value.push_up_reps,
     run_time |-> ret.value.run_time]

\* C23 as stated: the fields come from lines within 15 lines of the name line;
\* metric_a is the first digit-only line of the window with value in 5..80,
\* metric_b the first other digit-only line with value at most 2000, run_time
\* the first time line; a field once set is not overwritten.
C23_Original ==
    AroundNameReturned =>
        /\ \A i \in AroundWindow(args.name_index) :
              i - args.name_index <= 15 /\ args.name_index - i <= 15
        /\ FieldsReturned = FieldsAround(args.name_index, 0)

\* C23, amended: as above, but metric_b is the first other digit-only line
\* with value in 1..2000: a line with value 0 leaves metric_b open for a
\* later line.
C23_FirstInWindow ==
    AroundNameReturned =>
        /\ \A i \in AroundWindow(args.name_index) :
              i - args.name_index <= 15 /\ args.name_index - i <= 15
        /\ FieldsReturned = FieldsAround(args.name_index, 1)

\* a record was returned for a window with two lines in 5..80 and a time
\* line: the first is the sit-ups, the second the push-ups
C23_Witness ==
    /\ AroundNameReturned
    /\ Cardinality(NumberLines(args.name_index, 5, 80)) >= 2
    /\ NumberLines(args.name_index, 1, 4) = {}
    /\ ret.value.sit_up_reps = ValueAt(FirstLine(NumberLines(args.name_index, 5, 80)))
    /\ ret.value.push_up_reps # 0 /\ ret.value.push_up_reps # ret.value.sit_up_reps
    /\ ret.value.run_time # <<>>

---------------------------------------------------------------------------
(* The fixed-layout strategy and the union of the sub-strategies *)

\* FoolproofOCRParser._working_line_based_strategy(lines) of
\* foolproof_ocr_parser.py: the anchors that lie in the text are read
working_line_based(ls) ==
    Compact([k \in 1..Len(soldier_positions) |->
                IF soldier_positions[k].pos < Len(ls)
                THEN _extract_soldier_at_position(ls, soldier_positions[k].pos,
                                                  soldier_positions[k].serial)
                ELSE None])

\* (faulty variant: a record is appended even when the list holds it)
Unseen_always(soldier, list) == TRUE

\* soldier not in all_soldiers
Unseen(soldier, list) == ~InList(soldier, list)

\* the loops of _enhanced_pattern_matching over the records of its strategies
RECURSIVE UnionFold(_, _)
UnionFold(list, acc) ==
    IF list = <<>> THEN acc
    ELSE UnionFold(Tail(list),
                   IF Head(list).name # <<>> /\ Unseen(Head(list), acc)
                   THEN Append(acc, Head(list)) ELSE acc)

\* what the four sub-strategies return, in the order they are called
Strategies(ls) ==
    << working_line_based(ls), _serial_number_strategy(ls),
       _name_based_strategy(ls), _performance_data_strategy(ls) >>

\* the union of what the strategies returned
UnionOf(strategies) ==
    UnionFold(strategies[1] \o strategies[2] \o strategies[3] \o strategies[4], <<>>)

_enhanced_pattern_matching(ls) == UnionOf(Strategies(ls))

\* the three copies of the fixed-layout parser are run on the same text
PositionalCopies ==
    /\ prog = "extractor" /\ pc = "call"
    /\ pc' = "done"
    /\ args' = [fn |-> "positional_copies"]
    /\ ret' = [parser |-> working_line_based(lines),
               working |-> parse_ippt_with_working_method(lines).soldiers,
               manual |-> parse_all_soldiers_correctly(lines).soldiers]
    /\ UNCHANGED <<prog, results, soldiers, raised, budget, all_soldiers, seen_names,
                   cur, final_result, returned, run, first_result, time_str, time_out,
                   lines>>

\* _enhanced_pattern_matching; what its sub-strategies returned is kept with
\* its own result
EnhancedPatternMatching ==
    /\ prog = "extractor" /\ pc = "call"
    /\ pc' = "done"
    /\ args' = [fn |-> "_enhanced_pattern_matching"]
    /\ LET strategies == Strategies(lines)
       IN  ret' = [value |-> UnionOf(strategies), strategies |-> strategies]
    /\ UNCHANGED <<prog, results, soldiers, raised, budget, all_soldiers, seen_names,
                   cur, final_result, returned, run, first_result, time_str, time_out,
                   lines>>

CopiesReturned == prog = "extractor" /\ pc = "done" /\ args.fn = "positional_copies"

\* C25 as stated: on the same text the three copies of the fixed-layout parser
\* return the same sequence of records, also when the line at an anchor is
\* not the serial expected there.
C25_CopiesAgree ==
    CopiesReturned => (ret.parser = ret.working /\ ret.working = ret.manual)

\* the identity at the k-th anchor: its line two below the anchor, trimmed
\* and without the marker; empty when that line is beyond the text
IdentityAtAnchor(k) ==
    IF soldier_positions[k].pos + 2 < Len(lines)
    THEN Normalized(Line(lines, soldier_positions[k].pos + 2))
    ELSE <<>>

NotEmpty(s) == s # <<>>

\* the identities the positional extractor is to return, in anchor order
IdentitiesInOrder ==
    SelectSeq([k \in 1..Len(soldier_positions) |-> IdentityAtAnchor(k)], NotEmpty)

NamesOf(list) == [j \in 1..Len(list) |-> list[j].name]

\* the identity line at the k-th anchor, trimmed only
TrimmedAtAnchor(k) ==
    IF soldier_positions[k].pos + 2 < Len(lines)
    THEN Strip(Line(lines, soldier_positions[k].pos + 2))
    ELSE <<>>

\* the anchors whose identity line is not empty once trimmed
TrimmedInOrder ==
    SelectSeq([k \in 1..Len(soldier_positions) |-> TrimmedAtAnchor(k)], NotEmpty)

UnionReturned ==
    prog = "extractor" /\ pc = "done" /\ args.fn = "_enhanced_pattern_matching"

\* the records the sub-strategies produced
Produced ==
    UNION { { ret.strategies[k][j] : j \in 1..Len(ret.strategies[k]) } :
            k \in 1..Len(ret.strategies) }

\* C27: the list _enhanced_pattern_matching returns holds no record twice,
\* and holds every record with an identity that a sub-strategy produced (and
\* nothing else).
C27_UnionOfStrategies ==
    UnionReturned =>
        /\ \A i, j \in 1..Len(ret.value) : i # j => ret.value[i] # ret.value[j]
        /\ {ret.value[j] : j \in 1..Len(ret.value)} = {r \in Produced : r.name # <<>>}

\* two sub-strategies produced the same record, which the list holds
C27_Witness ==
    /\ UnionReturned
    /\ \E k1, k2 \in 1..Len(ret.strategies) :
          /\ k1 # k2
          /\ \E r \in Produced :
                /\ r.name # <<>>
                /\ InList(r, ret.strategies[k1]) /\ InList(r, ret.strategies[k2])
                /\ InList(r, ret.value)

---------------------------------------------------------------------------
(* The extractors run on a text, as one specification *)

NextPattern ==
    \/ AggressiveExtraction
    \/ ExtractFromPerformanceContext
    \/ ExtractDataAroundName
    \/ PositionalCopies
    \/ EnhancedPatternMatching

SpecPattern == InitPattern /\ [][NextPattern]_vars

---------------------------------------------------------------------------
(* The serial-anchored scan over the OCR tokens: spatial_ippt_parser.py,  *)
(* foolproof_ocr_parser.py and api/foolproof_ocr_endpoint.py              *)

\* text.isdigit() and 1 <= int(text) <= 10, on the stripped text of a token
IsSerialToken(text) == MatchDigits(text) /\ StrToInt(text) >= 1 /\ StrToInt(text) <= 10

\* the number of tokens, the anchor included, the scan is bounded by
SearchSpan == 20

\* search_range = min(index + 20, len(all_text))
search_range(all_text, index) == Min2(index + SearchSpan, Len(all_text))

\* (faulty variant: the scan goes on past a serial number)
ScanEnd_range(all_text, index) == search_range(all_text, index)

\* the index the loop `for i in range(index + 1, search_range)` ends at: the
\* first token that is a serial number, where it breaks, else search_range
ScanEnd(all_text, index) ==
    LET stops == { i \in (index + 1)..(search_range(all_text, index) - 1) :
                      IsSerialToken(Strip(Line(all_text, i))) }
    IN  IF stops = {} THEN search_range(all_text, index)
        ELSE CHOOSE i \in stops : \A j \in stops : i <= j

\* the number branch of _extract_soldier_near_serial: a number in 5..80 is
\* for the sit-ups only
AssignNumberSpatial(sd, num) ==
    IF 5 <= num /\ num <= 80
    THEN IF sd.sit_up_reps = 0 THEN [sd EXCEPT !.sit_up_reps = num] ELSE sd
    ELSE IF num <= 2000
         THEN IF sd.push_up_reps = 0 THEN [sd EXCEPT !.push_up_reps = num] ELSE sd
         ELSE sd

\* the number branch of _extract_nearby_azure_data
AssignNumberAzure(sd, num) ==
    IF 5 <= num /\ num <= 80 /\ sd.sit_up_reps = 0
    THEN [sd EXCEPT !.sit_up_reps = num]
    ELSE IF num <= 200 /\ sd.push_up_reps = 0
         THEN [sd EXCEPT !.push_up_reps = num]
         ELSE sd

\* one pass of the loop of _extract_soldier_near_serial, below the break
NearSerialStep(sd, text) ==
    IF LooksLikeName(text)
    THEN IF sd.name = <<>> \/ Len(text) > Len(sd.name)
         THEN [sd EXCEPT !.name = Strip(Remove(text, PTE))]
         ELSE sd
    ELSE IF MatchDigits(text) THEN AssignNumberSpatial(sd, StrToInt(text))
    ELSE IF MatchRunTime(text) /\ sd.run_time = <<>> THEN [sd EXCEPT !.run_time = text]
    ELSE sd

\* one pass of the loop of _extract_nearby_data, below the break
NearbyStep(sd, text) ==
    IF LooksLikeName(text)
    THEN IF sd.name = <<>> THEN [sd EXCEPT !.name = Strip(Remove(text, PTE))] ELSE sd
    ELSE IF MatchDigits(text) THEN AssignNumber(sd, StrToInt(text))
    ELSE IF MatchRunTime(text) /\ sd.run_time = <<>> THEN [sd EXCEPT !.run_time = text]
    ELSE sd

\* one pass of the loop of _extract_nearby_azure_data, below the break
NearbyAzureStep(sd, text) ==
    IF LooksLikeName(text)
    THEN IF sd.name = <<>> THEN [sd EXCEPT !.name = Strip(Remove(text, PTE))] ELSE sd
    ELSE IF MatchDigits(text) THEN AssignNumberAzure(sd, StrToInt(text))
    ELSE IF MatchRunTime(text) /\ sd.run_time = <<>> THEN [sd EXCEPT !.run_time = text]
    ELSE sd

RECURSIVE NearSerialFold(_, _, _, _)
NearSerialFold(all_text, i, hi, sd) ==
    IF i >= hi THEN sd
    ELSE NearSerialFold(all_text, i + 1, hi, NearSerialStep(sd, Strip(Line(all_text, i))))

RECURSIVE NearbyFold(_, _, _, _)
NearbyFold(all_text, i, hi, sd) ==
    IF i >= hi THEN sd
    ELSE NearbyFold(all_text, i + 1, hi, NearbyStep(sd, Strip(Line(all_text, i))))

RECURSIVE NearbyAzureFold(_, _, _, _)
NearbyAzureFold(all_text, i, hi, sd) ==
    IF i >= hi THEN sd
    ELSE NearbyAzureFold(all_text, i + 1, hi, NearbyAzureStep(sd, Strip(Line(all_text, i))))

\* SpatialIPPTParser._extract_soldier_near_serial: the record, whatever its name
_extract_soldier_near_serial(all_text, serial_index) ==
    NearSerialFold(all_text, serial_index + 1, ScanEnd(all_text, serial_index),
                   Soldier(<<>>, 0, 0, <<>>))

\* FoolproofOCRParser._extract_nearby_data of foolproof_ocr_parser.py
_extract_nearby_data(all_text, index) ==
    ExtractedOrNone(NearbyFold(all_text, index + 1, ScanEnd(all_text, index),
                               Soldier(<<>>, 0, 0, <<>>)))

\* FoolproofOCRParser._extract_nearby_azure_data of api/foolproof_ocr_endpoint.py
_extract_nearby_azure_data(all_text, index) ==
    ExtractedOrNone(NearbyAzureFold(all_text, index + 1, ScanEnd(all_text, index),
                                    Soldier(<<>>, 0, 0, <<>>)))

\* _extract_soldiers_from_text: a record for each serial token that has one
\* with a name
_extract_soldiers_from_text(all_text) ==
    Compact([j \in 1..Len(all_text) |->
                IF IsSerialToken(Strip(all_text[j]))
                THEN _extract_nearby_data(all_text, j - 1)
                ELSE None])

---------------------------------------------------------------------------
(* The serial-anchored scan, run on the tokens of a page *)

\* the number of tokens drawn freely after the first serial number
MaxTokens == 3

L300 == <<"3", "0", "0">>

\* the texts of OCR tokens: a serial number, a long and a short name, a
\* count in the band of the sit-ups, one above 200, and a time
TokenTexts ==
    { <<" ", "2", " ">>, PteJohnTan, <<" ", "C", "P", "L", " ", "B", "O", " ">>,
      L35, L300, T930 }

RECURSIVE TokenSeqs(_)
TokenSeqs(n) ==
    IF n = 0 THEN {<<>>}
    ELSE LET shorter == TokenSeqs(n - 1)
         IN  shorter \cup { Append(s, t) : s \in { q \in shorter : Len(q) = n - 1 },
                                            t \in TokenTexts }

\* the text of the tokens of a page, in reading order: a serial number, up to
\* n tokens, and then nothing, or filler up to the end of the search range
\* and one token at or just beyond it
TokenInputs(n) ==
    UNION { {<<<<"1">>>> \o body}
            \cup { <<<<"1">>>> \o body \o Filler(SearchSpan - 2 + far - Len(body)) \o <<t>> :
                      far \in 0..1, t \in {L40, T930, PteJohnTan} } :
            body \in TokenSeqs(n) }

InitSpatial ==
    /\ prog = "spatial"
    /\ pc = "call"
    /\ lines \in TokenInputs(MaxTokens)
    /\ args = NoResult /\ ret = NoResult
    /\ time_str = <<>> /\ time_out = <<>>
    /\ Idle

\* the three implementations of the scan are run from the same serial token
\* of the same tokens; the index their loop ended at is kept with the records
NearbyCopies ==
    /\ prog = "spatial" /\ pc = "call"
    /\ \E index \in 0..(Len(lines) - 1) :
          /\ IsSerialToken(Strip(Line(lines, index)))
          /\ pc' = "done"
          /\ args' = [fn |-> "nearby_copies", index |-> index]
          /\ ret' = [spatial |-> _extract_soldier_near_serial(lines, index),
                     parser |-> _extract_nearby_data(lines, index),
                     endpoint |-> _extract_nearby_azure_data(lines, index),
                     scan_end |-> ScanEnd(lines, index)]
    /\ UNCHANGED <<prog, results, soldiers, raised, budget, all_soldiers, seen_names,
                   cur, final_result, returned, run, first_result, time_str, time_out,
                   lines>>

\* _extract_soldiers_from_text over all the tokens
ExtractSoldiersFromText ==
    /\ prog = "spatial"
    /\ Call([fn |-> "_extract_soldiers_from_text"], _extract_soldiers_from_text(lines))

NextSpatial ==
    \/ NearbyCopies
    \/ ExtractSoldiersFromText

SpecSpatial == InitSpatial /\ [][NextSpatial]_vars

NearbyReturned == prog = "spatial" /\ pc = "done" /\ args.fn = "nearby_copies"

\* the fields of a record, the record of no name that stands for None
FieldsOf(r) == IF r = None THEN Soldier(<<>>, 0, 0, <<>>) ELSE r

\* C24 as stated: from the same tokens and the same serial anchor the three
\* implementations of the scan assign the same name, sit-ups, push-ups and
\* run time.
C24_ScansAgree ==
    NearbyReturned =>
        /\ FieldsOf(ret.parser) = FieldsOf(ret.endpoint)
        /\ ret.parser # None => ret.spatial = ret.parser

\* the tokens after the anchor up to, not including, the first serial number
\* among them, and no further than 19 tokens past the anchor
Scanned ==
    { i \in (args.index + 1)..(Len(lines) - 1) :
         /\ i <= args.index + 19
         /\ \A j \in (args.index + 1)..i : ~IsSerialToken(Strip(Line(lines, j))) }

InSerialRange(n) == n >= 1 /\ n <= 10

\* a field of the record r is the text of a token among those at the indexes I
FromTokens(r, I) ==
    LET texts == { Strip(Line(lines, i)) : i \in I }
    IN  /\ r.name # <<>> => \E t \in texts : r.name = Strip(Remove(t, PTE))
        /\ r.sit_up_reps # 0 =>
              \E t \in texts : MatchDigits(t) /\ r.sit_up_reps = StrToInt(t)
        /\ r.push_up_reps # 0 =>
              \E t \in texts : MatchDigits(t) /\ r.push_up_reps = StrToInt(t)
        /\ r.run_time # <<>> => \E t \in texts : r.run_time = t

---------------------------------------------------------------------------
(* The sequential serial scan of azure_ippt_parser.py                     *)

max_people == 10

\* the lines a match skips
Stride == 12

\* lines[i + k].strip() if i + k < len(lines) else ""
StrippedAt(ls, idx) == IF idx < Len(ls) THEN Strip(Line(ls, idx)) ELSE <<>>

\* line.isdigit() and int(line) == current_serial
MatchesSerial(line, current_serial) == MatchDigits(line) /\ StrToInt(line) = current_serial

\* int(line) under `try: ... except: ... = 0`
IntOrZero(line) == IF IntOfStr(line).ok THEN IntOfStr(line).v ELSE 0

\* the record read at the serial line i: the name two lines below, without
\* the marker, the counts 7 and 8 lines below, the run time, whatever stands
\* there, 9 lines below
SimpleRecordAt(ls, i) ==
    LET name_line == StrippedAt(ls, i + 2)
    IN  Soldier(IF name_line # <<>> THEN Strip(Remove(name_line, PTE)) ELSE <<>>,
                IntOrZero(StrippedAt(ls, i + 7)),
                IntOrZero(StrippedAt(ls, i + 8)),
                StrippedAt(ls, i + 9))

\* if name and (sit_up_reps > 0 or push_up_reps > 0 or run_time)
SimpleKeeps(r) ==
    r.name # <<>> /\ (r.sit_up_reps > 0 \/ r.push_up_reps > 0 \/ r.run_time # <<>>)

\* the characters of str, which every output encoding can write
Ascii ==
    UpperChars \cup LowerChars \cup Digits \cup Whitespace \cup {":", "+", "-", "_", "."}

\* `print str(current_serial) + ". " + name` of a unicode name: whether it
\* raises UnicodeEncodeError is up to the encoding of the output, which
\* cannot fail on a name of ASCII characters
PrintMayRaise(name) == \E j \in 1..Len(name) : name[j] \notin Ascii

\* the loop is at its head with the locals i and current_serial, held in cur
\* with the line of the last match
AtLoopHead == prog = "simple" /\ pc = "loop"

\* while current_serial <= max_people and i < len(lines)
LoopCondition == cur.current_serial <= max_people /\ cur.i < Len(lines)

simpleUnchanged ==
    <<prog, results, raised, budget, all_soldiers, seen_names, final_result, returned,
      run, first_result, time_str, time_out, lines, args>>

\* the line is not the serial number looked for
SimpleSkip ==
    /\ AtLoopHead /\ LoopCondition
    /\ ~MatchesSerial(Strip(Line(lines, cur.i)), cur.current_serial)
    /\ cur' = [cur EXCEPT !.i = cur.i + 1]
    /\ UNCHANGED <<pc, soldiers, ret>>
    /\ UNCHANGED simpleUnchanged

\* the line is the serial number looked for, and the body of the try ends
SimpleMatch ==
    /\ AtLoopHead /\ LoopCondition
    /\ MatchesSerial(Strip(Line(lines, cur.i)), cur.current_serial)
    /\ LET r == SimpleRecordAt(lines, cur.i)
       IN  soldiers' = IF SimpleKeeps(r) THEN Append(soldiers, r) ELSE soldiers
    /\ cur' = [i |-> cur.i + Stride, current_serial |-> cur.current_serial + 1,
               matched |-> cur.i]
    /\ UNCHANGED <<pc, ret>>
    /\ UNCHANGED simpleUnchanged

\* the line is the serial number looked for, the record is appended, and the
\* print of its name raises: the handler goes on from the next line
SimpleMatchRaises ==
    /\ AtLoopHead /\ LoopCondition
    /\ MatchesSerial(Strip(Line(lines, cur.i)), cur.current_serial)
    /\ LET r == SimpleRecordAt(lines, cur.i)
       IN  /\ SimpleKeeps(r)
           /\ PrintMayRaise(r.name)
           /\ soldiers' = Append(soldiers, r)
    /\ cur' = [i |-> cur.i + 1, current_serial |-> cur.current_serial + 1,
               matched |-> cur.i]
    /\ UNCHANGED <<pc, ret>>
    /\ UNCHANGED simpleUnchanged

\* the loop ends and the records are returned
SimpleReturn ==
    /\ AtLoopHead /\ ~LoopCondition
    /\ pc' = "done"
    /\ ret' = [value |-> [soldiers |-> soldiers]]
    /\ UNCHANGED <<cur, soldiers>>
    /\ UNCHANGED simpleUnchanged

\* the most blocks of a text whose blocks are drawn freely
MaxBlocks == 2

Jose == <<"P", "T", "E", " ", "J", "O", "S", "É">>

\* the k-th block of a sheet, of Stride lines: its serial number, or another
\* line in its place, and below it a second line, the name, the counts and
\* the run time
SimpleBlock(l0, l1, name) == <<l0, l1, name, X, X, X, X, L35, L40, T930, X, X>>

\* decimal digits of a number from 1 to 99
Numeral(k) ==
    IF k < 10 THEN <<DigitChars[k + 1]>>
    ELSE <<DigitChars[(k \div 10) + 1], DigitChars[(k % 10) + 1]>>

\* the blocks that can stand k-th: with the serial k or text in its place,
\* with the next serial on the second line or not, with a name that is ASCII,
\* one that is not, or none
SimpleBlocks(k) ==
    { SimpleBlock(l0, l1, name) :
        l0 \in {Numeral(k), ABC}, l1 \in {ID001, Numeral(k + 1)},
        name \in {PteJohnTan, Jose, <<>>} }

RECURSIVE SimpleSheets(_)
SimpleSheets(n) ==
    IF n = 0 THEN {<<>>}
    ELSE { s \o b : s \in SimpleSheets(n - 1), b \in SimpleBlocks(n) }

\* a sheet of max_people + 1 soldiers, all read
FullSheet(name) ==
    LET blocks == [k \in 1..(max_people + 1) |-> SimpleBlock(Numeral(k), ID001, name)]
        flat == [j \in 1..(Stride * (max_people + 1)) |->
                    blocks[((j - 1) \div Stride) + 1][((j - 1) % Stride) + 1]]
    IN  flat

\* content.split('\n'): sheets of up to n blocks, cut at any length, and two
\* full sheets
SimpleInputs(n) ==
    UNION { { SubSeq(s, 1, len) : len \in 1..Len(s) } :
            s \in UNION { SimpleSheets(m) : m \in 1..n } }
    \cup { FullSheet(PteJohnTan), FullSheet(Jose) }

InitSimple ==
    /\ prog = "simple"
    /\ pc = "loop"
    /\ lines \in SimpleInputs(MaxBlocks)
    /\ soldiers = <<>>
    /\ cur = [i |-> 0, current_serial |-> 1, matched |-> -1]
    /\ args = NoResult /\ ret = NoResult
    /\ time_str = <<>> /\ time_out = <<>>
    /\ results = <<>> /\ raised = {} /\ budget = 0
    /\ all_soldiers = <<>> /\ seen_names = {}
    /\ final_result = NoResult /\ returned = NoResult
    /\ run = 0 /\ first_result = NoResult

NextSimple ==
    \/ SimpleSkip
    \/ SimpleMatch
    \/ SimpleMatchRaises
    \/ SimpleReturn

SpecSimple == InitSimple /\ [][NextSimple]_vars

\* C30, its steps: a pass of the loop adds 1 or 12 to i, which the return
\* leaves as it is, and never takes from current_serial, which goes up by one
\* with every match, in the order 1, 2, .., 10.
C30_Steps ==
    [][ /\ cur'.i - cur.i \in (IF pc' = "loop" THEN {1, Stride} ELSE {0})
        /\ cur'.current_serial - cur.current_serial \in {0, 1}
        /\ Len(soldiers') <= cur'.current_serial - 1
        /\ cur'.current_serial <= max_people + 1 ]_vars

\* C30 as stated, its last part: at most one record for each serial matched,
\* so at most 10, and after a match at line i no line before i + 12 is
\* examined again.
C30_NoLineExaminedAgain ==
    prog = "simple" =>
        /\ Len(soldiers) <= cur.current_serial - 1
        /\ Len(soldiers) <= max_people
        /\ cur.matched >= 0 => cur.i >= cur.matched + Stride

====
